---- MODULE Spec2Model ----
(***************************************************************************)
(* Fee-resolution engine of the RDN fee scraper (src/server-upgradedv2.py): *)
(* generate_fees_table (classification, deduplication, table routing) and    *)
(* lookup_repo_fee (fee-matrix resolution with the Standard fallback).       *)
(*                                                                           *)
(* Python strings that the code inspects (lower(), strip(), "in", +) are    *)
(* sequences of one-character strings; strings that are only compared are   *)
(* TLA+ strings.  Python's None / a missing row is the empty tuple <<>> and *)
(* a present value v is <<v>>.  Money is an integer number of mils          *)
(* (1/1000 dollar) before formatting and of cents after "%.2f".             *)
(***************************************************************************)
EXTENDS Integers, Sequences, FiniteSets, TLC

\* ------------------------------------------------------------------ bounds
MaxUpdates == 2     \* longest list of fee updates handed to generate_fees_table
MaxId == 2          \* lienholder ids range over 0..MaxId
MaxBlocks == 2      \* longest list of update blocks read off the Updates tab
MaxRequests == 3    \* HTTP requests the server receives
MaxScraped == 52    \* longest Updates tab the extraction alone is run on
MaxCases == 2       \* cases scraped one after the other by one server process

\* ------------------------------------------------------------- text values
None == <<>>
Some(v) == <<v>>
EmptyStr == <<>>

pre_approved_fees ==
  << <<"F","i","e","l","d"," ","V","i","s","i","t">>,
     <<"F","l","a","t","b","e","d"," ","F","e","e","s">>,
     <<"D","o","l","l","y"," ","F","e","e","s">>,
     <<"M","i","l","e","a","g","e","/"," ","F","u","e","l">>,
     <<"I","n","c","e","n","t","i","v","e">>,
     <<"F","r","o","n","t","e","n","d">>,
     <<"F","r","o","n","t","e","n","d"," ","(","f","o","r"," ","I","m","p","o","u","n","d",")">>,
     <<"L","P","R"," ","I","n","v","o","u","l","a","n","t","r","y"," ","R","e","p","o">>,
     <<"L","P","R"," ","R","E","P","O","S","S","E","S","S","I","O","N">>,
     <<"F","i","n","d","e","r","'","s"," ","f","e","e">>,
     <<"C","R"," ","A","N","D"," ","P","H","O","T","O","S"," ","F","E","E">>,
     <<"F","u","e","l"," ","S","u","r","c","h","a","r","g","e">>,
     <<"O","T","H","E","R">>,
     <<"S","K","I","P"," ","R","E","P","O","S","S","E","S","S","I","O","N">>,
     <<"B","o","n","u","s">>,
     <<"K","e","y","s"," ","F","e","e">>,
     <<"K","e","y"," ","F","e","e">>,
     <<"I","n","v","o","l","u","n","t","a","r","y"," ","R","e","p","o">>,
     <<"V","o","l","u","n","t","a","r","y"," ","R","e","p","o">>,
     <<"R","e","c","o","v","e","r","y"," ","F","e","e">> >>
NotFound == <<"N","o","t"," ","f","o","u","n","d">>
Standard == <<"S","t","a","n","d","a","r","d">>
StandardFallbackSuffix == <<" ","(","S","t","a","n","d","a","r","d"," ","F","a","l","l","b","a","c","k",")">>
InvoluntaryRepo == <<"I","n","v","o","l","u","n","t","a","r","y"," ","R","e","p","o">>
VoluntaryRepo == pre_approved_fees[19]
UnknownFee == <<"U","n","k","n","o","w","n"," ","F","e","e">>
KeysFee == <<"K","e","y","s"," ","F","e","e">>
DbContextPrefix == <<"D","a","t","a","b","a","s","e"," ","l","o","o","k","u","p"," ","f","o","r"," ">>
DbContextDash == <<" ","-"," ">>
DbContextSlash == <<" ","/"," ">>
MsgPrefix == <<"L","i","e","n","h","o","l","d","e","r"," ","'">>
MsgSuffix == <<"'"," ","s","p","e","c","i","f","i","c"," ","f","e","e"," ","n","o","t"," ","f","o","u","n","d","."," ","U","s","i","n","g"," ","S","t","a","n","d","a","r","d"," ","a","m","o","u","n","t",".">>
KeyWord == <<"k","e","y">>
KeysFeeLower == <<"k","e","y","s"," ","f","e","e">>
KeyFeeLower == <<"k","e","y"," ","f","e","e">>
Acme == <<"A","c","m","e">>
AcmeBank == <<"A","c","m","e"," ","B","a","n","k">>

\* ------------------------------------------------------------ str methods
UpperChars == <<"A","B","C","D","E","F","G","H","I","J","K","L","M","N","O","P","Q","R","S","T","U","V","W","X","Y","Z">>
LowerChars == <<"a","b","c","d","e","f","g","h","i","j","k","l","m","n","o","p","q","r","s","t","u","v","w","x","y","z">>

\* the characters of the strings of this model
Chars ==
  {UpperChars[k] : k \in 1..26} \cup {LowerChars[k] : k \in 1..26}
  \cup {" ", "\t", "\n", "/", "(", ")", "'", "-", ".", "$", ",", ":",
        "_", "0", "1", "2", "3", "4", "5", "6", "7", "8", "9"}

\* the lower-case form of every character
LowerChar ==
  [c \in Chars |->
     IF \E k \in 1..26 : UpperChars[k] = c
     THEN LowerChars[CHOOSE k \in 1..26 : UpperChars[k] = c]
     ELSE c]

\* str.lower()
Lower(s) == [k \in 1..Len(s) |-> LowerChar[s[k]]]

\* the characters matched by \s and removed by str.strip()
IsSpace(c) == c \in {" ", "\t", "\n"}

RECURSIVE LStrip(_)
LStrip(s) == IF s # <<>> /\ IsSpace(Head(s)) THEN LStrip(Tail(s)) ELSE s

RECURSIVE RStrip(_)
RStrip(s) ==
  IF s # <<>> /\ IsSpace(s[Len(s)]) THEN RStrip(SubSeq(s, 1, Len(s) - 1)) ELSE s

\* str.strip()
Strip(s) == RStrip(LStrip(s))

\* re.sub(r'\s+', ' ', s): every maximal run of whitespace becomes one blank
RECURSIVE CollapseSpaces(_)
CollapseSpaces(s) ==
  IF s = <<>> THEN <<>>
  ELSE IF IsSpace(Head(s))
       THEN <<" ">> \o CollapseSpaces(LStrip(s))
       ELSE <<Head(s)>> \o CollapseSpaces(Tail(s))

\* the Python operator "needle in hay" on strings
Contains(hay, needle) ==
  \E k \in 0..(Len(hay) - Len(needle)) : SubSeq(hay, k + 1, k + Len(needle)) = needle

\* str.endswith
EndsWith(s, suffix) ==
  /\ Len(s) >= Len(suffix)
  /\ SubSeq(s, Len(s) - Len(suffix) + 1, Len(s)) = suffix

\* generate_fees_table.normalize
normalize(text) ==
  IF text = <<>> THEN <<>> ELSE CollapseSpaces(Strip(Lower(text)))

Min2(a, b) == IF a <= b THEN a ELSE b
Max2(a, b) == IF a <= b THEN b ELSE a

\* Python truthiness of an optional integer: None and 0 are falsy
Truthy(opt) == opt # None /\ opt[1] # 0

\* "%.2f" of a positive float given in mils: the nearest cent
Fmt2(mils) == (mils + 5) \div 10


\* ------------------------------------------------------------------- state
VARIABLES
  current_case_info,  \* config['current_case_info']: None or Some(record)
  db,                 \* the fee-matrix store: tables Client, Lienholder, FeeType, FeeDetails2
  scraped_updates,    \* the update blocks scrape_updates_tab read off the Updates tab (updates)
  page_html,          \* the text of the case page navigate_to_case scans for key fees
  scrape_in_progress, \* the flag of the same name of the server
  handlers,           \* the HTTP requests: their route and how far the handler has got
  threads,            \* the start_scraping thread each request started, and its position
  active_sessions,    \* the threads whose browser is registered in active_sessions
  tables_info,        \* lookup_repo_fee.py: the dbo tables and their columns, by name
  table_k,            \* lookup_repo_fee.py: the table the classification loop is at
  fee_table, client_table, lienholder_table, feetype_table,
  fallback_logged,    \* lookup_repo_fee.py: 'Using fallback table names' was logged
  my_summary_fees,    \* start_scraping: what scrape_my_summary_tab returned
  key_fee_updates,    \* the global of the same name navigate_to_case assigns
  saved,              \* the tables handed to save_data: None or Some(record)
  process_complete,   \* the 'process-complete' event emitted: None or Some(record)
  cases_run,          \* the number of the start_scraping run of this server process
  current_case_id,    \* config['current_case_id']: None or Some(id)
  start_time,         \* the global of the same name: None or Some(request)
  input_updates,      \* the list as the caller built it, before generate_fees_table
                      \* mutates it (history of the argument)
  fee_updates,        \* the argument of generate_fees_table (the code mutates it)
  pc,                 \* position inside generate_fees_table / lookup_repo_fee
  conn,               \* "none", "open" or "closed": the pyodbc connection of this call
  connects,           \* number of calls of get_db_connection
  queries,            \* the statements handed to cursor.execute, in order
  client_id, lienholder_id, fee_type_id, standard_lienholder_id,
  repo_fee_data,      \* what lookup_repo_fee returned: None or Some(record)
  lookup_error,       \* the error lookup_repo_fee logged: "none", "connect" or "exception"
  sorted_updates,     \* fee_updates sorted by source priority
  i, j,               \* the update and the amount_info the loops are at
  seen,               \* the set of deduplication keys
  all_fees_table, keys_fees_table, predefined_fees_table, other_fees_table,
  skipped             \* the candidates logged as 'Skipping duplicate fee'

lookupVars == <<conn, connects, queries, client_id, lienholder_id, fee_type_id,
                standard_lienholder_id, repo_fee_data, lookup_error>>
tableVars == <<sorted_updates, i, j, seen, all_fees_table, keys_fees_table,
               predefined_fees_table, other_fees_table, skipped>>
serverVars == <<scrape_in_progress, handlers, threads, active_sessions>>
schemaVars == <<tables_info, table_k, fee_table, client_table, lienholder_table,
                feetype_table, fallback_logged>>
scrapeVars == <<my_summary_fees, key_fee_updates, saved, process_complete, cases_run>>
configVars == <<current_case_id, start_time>>
inputVars == <<current_case_info, db, input_updates, scraped_updates, page_html, serverVars,
               schemaVars, scrapeVars, configVars>>
vars == <<inputVars, fee_updates, pc, lookupVars, tableVars>>
\* what a run of start_scraping works on, left alone by the request handlers
runVars == <<current_case_info, db, input_updates, scraped_updates, page_html,
             fee_updates, pc, lookupVars, tableVars, schemaVars, scrapeVars>>

\* ------------------------------------------------------- the fee-rate store
\* SELECT TOP 1 id FROM <table> WHERE <name column> = ?
SelectTop1Id(table, name) ==
  LET hits == {r \in table : r.name = name}
  IN IF hits = {} THEN {None} ELSE {Some(r.id) : r \in hits}

\* SELECT fd.fd_id, c.client_name, lh.lienholder_name, ft.fee_type_name, fd.amount
\* FROM FeeDetails2 fd JOIN RDN_Client c .. JOIN Lienholder lh .. JOIN FeeType ft ..
\* WHERE fd.client_id = ? AND fd.lh_id = ? AND fd.ft_id = ?   (cursor.fetchone())
SelectFeeDetail(cid, lid, fid) ==
  LET joined == {t \in db.FeeDetails2 \X db.Client \X db.Lienholder \X db.FeeType :
                   /\ t[1].client_id = t[2].id /\ t[1].lh_id = t[3].id /\ t[1].ft_id = t[4].id
                   /\ t[1].client_id = cid /\ t[1].lh_id = lid /\ t[1].ft_id = fid}
  IN IF joined = {} THEN {None}
     ELSE {Some([fd_id |-> t[1].fd_id, client_name |-> t[2].name,
                 lienholder_name |-> t[3].name, fee_type |-> t[4].name,
                 amount |-> t[1].amount]) : t \in joined}

\* ------------------------------------------------- generate_fees_table: entry
HasCaseInfo == current_case_info # None
case_client_name == current_case_info[1].clientName
case_lienholder_name == current_case_info[1].lienHolderName
case_repo_type == current_case_info[1].repoType

\* the validation in front of the lookup
LookupInputsValid(client, lienholder, repoType) ==
  /\ client # EmptyStr /\ client # NotFound
  /\ lienholder # EmptyStr /\ lienholder # NotFound

\* generate_fees_table up to the call of lookup_repo_fee
Begin ==
  /\ pc = "start"
  /\ pc' = IF HasCaseInfo /\ LookupInputsValid(case_client_name, case_lienholder_name,
                                                case_repo_type)
           THEN "connect" ELSE "lookup_done"
  /\ UNCHANGED <<inputVars, fee_updates, lookupVars, tableVars>>

\* ------------------------------------------------------------ lookup_repo_fee
\* return <result> from inside the try: the finally clause closes the connection
LookupReturn(result) ==
  /\ repo_fee_data' = result
  /\ conn' = "closed"
  /\ pc' = "lookup_done"

\* conn = get_db_connection(); if not conn: return None
Connect ==
  /\ pc = "connect"
  /\ connects' = connects + 1
  /\ \E ok \in BOOLEAN :
       IF ok THEN conn' = "open" /\ pc' = "q_client"
                  /\ UNCHANGED <<repo_fee_data, lookup_error>>
       ELSE conn' = "none" /\ pc' = "lookup_done" /\ repo_fee_data' = None
            /\ lookup_error' = "connect"
  /\ UNCHANGED <<inputVars, fee_updates, tableVars, queries, client_id, lienholder_id,
                 fee_type_id, standard_lienholder_id>>

\* Step 1a: the client id; an unknown client ends the lookup
QueryClient ==
  /\ pc = "q_client"
  /\ queries' = Append(queries, "client")
  /\ \E row \in SelectTop1Id(db.Client, case_client_name) :
       /\ client_id' = row
       /\ IF row = None THEN LookupReturn(None)
          ELSE pc' = "q_lienholder" /\ UNCHANGED <<repo_fee_data, conn>>
  /\ lookup_error' = lookup_error
  /\ UNCHANGED <<inputVars, fee_updates, tableVars, connects, lienholder_id, fee_type_id,
                 standard_lienholder_id>>

\* faulty variant of QueryLienholder: an unknown lienholder ends the lookup like an
\* unknown client
QueryLienholder_Fatal ==
  /\ pc = "q_lienholder"
  /\ queries' = Append(queries, "lienholder")
  /\ \E row \in SelectTop1Id(db.Lienholder, case_lienholder_name) :
       /\ lienholder_id' = row
       /\ IF row = None THEN LookupReturn(None)
          ELSE pc' = "q_feetype" /\ UNCHANGED <<repo_fee_data, conn>>
  /\ lookup_error' = lookup_error
  /\ UNCHANGED <<inputVars, fee_updates, tableVars, connects, client_id, fee_type_id,
                 standard_lienholder_id>>

\* Step 1b: the lienholder id; a miss leaves lienholder_id = None and goes on
QueryLienholder ==
  /\ pc = "q_lienholder"
  /\ queries' = Append(queries, "lienholder")
  /\ \E row \in SelectTop1Id(db.Lienholder, case_lienholder_name) :
       lienholder_id' = row
  /\ pc' = "q_feetype"
  /\ lookup_error' = lookup_error
  /\ UNCHANGED <<inputVars, fee_updates, tableVars, conn, connects, client_id, fee_type_id,
                 standard_lienholder_id, repo_fee_data>>

\* Step 1c: the fee-type id; an unknown fee type ends the lookup
QueryFeeType ==
  /\ pc = "q_feetype"
  /\ queries' = Append(queries, "feetype")
  /\ \E row \in SelectTop1Id(db.FeeType, case_repo_type) :
       /\ fee_type_id' = row
       /\ IF row = None THEN LookupReturn(None)
          ELSE pc' = "primary" /\ UNCHANGED <<repo_fee_data, conn>>
  /\ lookup_error' = lookup_error
  /\ UNCHANGED <<inputVars, fee_updates, tableVars, connects, client_id, lienholder_id,
                 standard_lienholder_id>>

\* "if lienholder_id:" in front of the primary query
PrimaryAttempted(lid) == Truthy(lid)

\* Step 2: the exact (client, lienholder, fee type) row
PrimaryLookup ==
  /\ pc = "primary"
  /\ IF PrimaryAttempted(lienholder_id)
     THEN /\ queries' = Append(queries, "primary")
          /\ \E row \in SelectFeeDetail(client_id[1], lienholder_id[1], fee_type_id[1]) :
               IF row # None
               THEN LookupReturn(Some([fd_id |-> row[1].fd_id,
                                       client_name |-> row[1].client_name,
                                       lienholder_name |-> row[1].lienholder_name,
                                       fee_type |-> row[1].fee_type,
                                       amount |-> row[1].amount,
                                       is_fallback |-> FALSE,
                                       message |-> None]))
               ELSE pc' = "q_standard" /\ UNCHANGED <<repo_fee_data, conn>>
     ELSE pc' = "q_standard" /\ UNCHANGED <<queries, repo_fee_data, conn>>
  /\ lookup_error' = lookup_error
  /\ UNCHANGED <<inputVars, fee_updates, tableVars, connects, client_id, lienholder_id,
                 fee_type_id, standard_lienholder_id>>

\* Step 3a: the id of the lienholder named 'Standard'
QueryStandard ==
  /\ pc = "q_standard"
  /\ queries' = Append(queries, "standard")
  /\ \E row \in SelectTop1Id(db.Lienholder, Standard) :
       /\ standard_lienholder_id' = row
       /\ IF row = None THEN LookupReturn(None)
          ELSE pc' = "fallback" /\ UNCHANGED <<repo_fee_data, conn>>
  /\ lookup_error' = lookup_error
  /\ UNCHANGED <<inputVars, fee_updates, tableVars, connects, client_id, lienholder_id,
                 fee_type_id>>

\* faulty variant of FallbackResult: the Standard row is returned without the fallback flag
FallbackResult_Unflagged(row, requested_lienholder) ==
  [fd_id |-> row.fd_id,
   client_name |-> row.client_name,
   lienholder_name |-> row.lienholder_name,
   fee_type |-> row.fee_type,
   amount |-> row.amount,
   is_fallback |-> FALSE,
   message |-> None]

\* faulty variant of FallbackResult: the fallback result carries no message
FallbackResult_NoMessage(row, requested_lienholder) ==
  [fd_id |-> row.fd_id,
   client_name |-> row.client_name,
   lienholder_name |-> row.lienholder_name \o StandardFallbackSuffix,
   fee_type |-> row.fee_type,
   amount |-> row.amount,
   is_fallback |-> TRUE,
   message |-> None]

\* the record returned for a row found under the Standard lienholder
FallbackResult(row, requested_lienholder) ==
  [fd_id |-> row.fd_id,
   client_name |-> row.client_name,
   lienholder_name |-> row.lienholder_name \o StandardFallbackSuffix,
   fee_type |-> row.fee_type,
   amount |-> row.amount,
   is_fallback |-> TRUE,
   message |-> Some(MsgPrefix \o requested_lienholder \o MsgSuffix)]

\* Step 3b: the (client, Standard, fee type) row
FallbackLookup ==
  /\ pc = "fallback"
  /\ queries' = Append(queries, "fallback")
  /\ \E row \in SelectFeeDetail(client_id[1], standard_lienholder_id[1], fee_type_id[1]) :
       IF row # None
       THEN LookupReturn(Some(FallbackResult(row[1], case_lienholder_name)))
       ELSE LookupReturn(None)
  /\ lookup_error' = lookup_error
  /\ UNCHANGED <<inputVars, fee_updates, tableVars, connects, client_id, lienholder_id,
                 fee_type_id, standard_lienholder_id>>

\* cursor.execute raises: "except Exception" logs it and returns None
QueryPcs == {"q_client", "q_lienholder", "q_feetype", "primary", "q_standard", "fallback"}
QueryTag(p) ==
  CASE p = "q_client" -> "client" [] p = "q_lienholder" -> "lienholder"
    [] p = "q_feetype" -> "feetype" [] p = "primary" -> "primary"
    [] p = "q_standard" -> "standard" [] p = "fallback" -> "fallback"

QueryRaises ==
  /\ pc \in QueryPcs
  /\ pc = "primary" => PrimaryAttempted(lienholder_id)
  /\ queries' = Append(queries, QueryTag(pc))
  /\ LookupReturn(None)
  /\ lookup_error' = "exception"
  /\ UNCHANGED <<inputVars, fee_updates, tableVars, connects, client_id, lienholder_id,
                 fee_type_id, standard_lienholder_id>>


\* ------------------------------------------- generate_fees_table: preparation
\* update.get('source', 'Updates')
SourceOf(update) == IF update.source = None THEN "Updates" ELSE update.source[1]

\* faulty variant of Rank: the database is given the lowest priority
Rank_DatabaseLast(source) ==
  CASE source = "Database" -> 3
    [] source = "My Summary" -> 0
    [] source = "Updates" -> 1
    [] OTHER -> 2

\* priority_map.get(source, 3)
Rank(source) ==
  CASE source = "Database" -> 0
    [] source = "My Summary" -> 1
    [] source = "Updates" -> 2
    [] OTHER -> 3

\* "Normalize sources": a 'Case Page' update becomes an 'Updates' update
RenameCasePage(update) ==
  IF update.source = Some("Case Page") THEN [update EXCEPT !.source = Some("Updates")]
  ELSE update

\* faulty variant of SortByPriority: the updates are processed last to first
SortByPriority_Reversed(updates) ==
  [k \in 1..Len(updates) |-> updates[Len(updates) + 1 - k]]

\* faulty variant of SortByPriority: the updates are processed in input order
SortByPriority_Unsorted(updates) == updates

OfRank(updates, r) == SelectSeq(updates, LAMBDA u : Rank(SourceOf(u)) = r)

\* sorted(fee_updates, key=priority): a stable sort on the four ranks
SortByPriority(updates) ==
  OfRank(updates, 0) \o OfRank(updates, 1) \o OfRank(updates, 2) \o OfRank(updates, 3)

\* the context string of the appended database record
DbContext(repoType, client, lienholder) ==
  DbContextPrefix \o repoType \o DbContextDash \o client \o DbContextSlash \o lienholder

\* faulty variant of DatabaseUpdate: the amount is not the one lookup_repo_fee returned
DatabaseUpdate_Unstored(data, repoType, client, lienholder) ==
  [source |-> Some("Database"),
   feeLabel |-> repoType,
   isApproved |-> TRUE,
   amounts |-> << [amount |-> None,
                   context |-> DbContext(repoType, client, lienholder),
                   feeType |-> repoType,
                   isExplicitlyApproved |-> FALSE] >>]

\* the update appended for a fee found in the database
DatabaseUpdate(data, repoType, client, lienholder) ==
  [source |-> Some("Database"),
   feeLabel |-> repoType,
   isApproved |-> TRUE,
   amounts |-> << [amount |-> data.amount,
                   context |-> DbContext(repoType, client, lienholder),
                   feeType |-> repoType,
                   isExplicitlyApproved |-> FALSE] >>]

\* f"{repo_fee_data['amount']:.2f}" raises TypeError on a NULL amount
FormatRaises(data) == data.amount = None

\* from the return of lookup_repo_fee to the start of the loops
Prepare ==
  /\ pc = "lookup_done"
  /\ IF repo_fee_data # None /\ FormatRaises(repo_fee_data[1])
     THEN /\ pc' = "raised"
          /\ UNCHANGED <<fee_updates, tableVars>>
     ELSE LET appended ==
                IF repo_fee_data # None
                THEN Append(fee_updates,
                            DatabaseUpdate(repo_fee_data[1], case_repo_type,
                                           case_client_name, case_lienholder_name))
                ELSE fee_updates
              renamed == [k \in 1..Len(appended) |-> RenameCasePage(appended[k])]
          IN /\ fee_updates' = renamed
             /\ sorted_updates' = SortByPriority(renamed)
             /\ i' = 1 /\ j' = 1
             /\ pc' = "loop"
             /\ UNCHANGED <<seen, all_fees_table, keys_fees_table, predefined_fees_table,
                            other_fees_table, skipped>>
  /\ UNCHANGED <<inputVars, lookupVars>>

\* ------------------------------------------ generate_fees_table: classification
\* faulty variant of ResolveCategory: the label is preferred to the type hint
ResolveCategory_LabelFirst(fee_type, fee_label) ==
  IF fee_label # EmptyStr THEN fee_label
  ELSE IF fee_type # EmptyStr THEN fee_type
  ELSE UnknownFee

\* category = fee_type, else fee_label, else 'Unknown Fee'
ResolveCategory(fee_type, fee_label) ==
  IF fee_type # EmptyStr THEN fee_type
  ELSE IF fee_label # EmptyStr THEN fee_label
  ELSE UnknownFee

\* faulty variant of IsKeysFee: only the two exact names count as a Keys Fee
IsKeysFee_ExactOnly(category) ==
  \/ Lower(category) = KeysFeeLower
  \/ Lower(category) = KeyFeeLower

\* the Keys Fee test on the resolved category
IsKeysFee(category) ==
  \/ Lower(category) = KeysFeeLower
  \/ Lower(category) = KeyFeeLower
  \/ Contains(Lower(category), KeyWord)

WhitelistIdx == 1..Len(pre_approved_fees)

\* fee_name.lower() of every whitelist entry
pre_approved_lower == [k \in WhitelistIdx |-> Lower(pre_approved_fees[k])]

\* first whitelist entry equal to the category, ignoring case
ExactMatches(category_lower) ==
  {k \in WhitelistIdx : category_lower = pre_approved_lower[k]}

\* first whitelist entry containing the category or contained in it
PartialMatches(category_lower) ==
  {k \in WhitelistIdx : \/ Contains(category_lower, pre_approved_lower[k])
                        \/ Contains(pre_approved_lower[k], category_lower)}

First(S) == CHOOSE k \in S : \A m \in S : k <= m

\* matched_category: the whitelist name the category is standardized to, or None
MatchedCategory(category) ==
  LET category_lower == Lower(category)
  IN IF ExactMatches(category_lower) # {}
     THEN Some(pre_approved_fees[First(ExactMatches(category_lower))])
     ELSE IF PartialMatches(category_lower) # {}
          THEN Some(pre_approved_fees[First(PartialMatches(category_lower))])
          ELSE None

\* the deduplication key of a candidate
DedupKey(amount_value, category, fee_context) ==
  <<Fmt2(amount_value), normalize(category), normalize(fee_context)>>

\* faulty variant of IsDuplicate: the key is never looked up in seen
IsDuplicate_Never(key, seenKeys) == FALSE

\* "if key in seen: continue"
IsDuplicate(key, seenKeys) == key \in seenKeys

\* faulty variant of InTables: database records are put into the tables as well
InTables_Always(source) == TRUE

\* "if source != 'Database'": which records are put into the tables
InTables(source) == source # "Database"

\* faulty variant of TableOf: a record that is neither a key fee nor predefined is put
\* into no specialised table
TableOf_NoOther(is_keys_fee, is_predefined_category) ==
  IF is_keys_fee THEN "keys"
  ELSE IF is_predefined_category THEN "predefined"
  ELSE "none"

\* the table a record is appended to besides allFeesTable
TableOf(is_keys_fee, is_predefined_category) ==
  IF is_keys_fee THEN "keys"
  ELSE IF is_predefined_category THEN "predefined"
  ELSE "other"


\* faulty variant of ApprovalOf: a whitelist match grants no approval
ApprovalOf_FlagsOnly(isApproved, isExplicitlyApproved, source, is_predefined_category) ==
  IF isApproved \/ isExplicitlyApproved \/ source = "Database" THEN "Yes" ELSE "Likely"

\* fee_entry['approved']
ApprovalOf(isApproved, isExplicitlyApproved, source, is_predefined_category) ==
  IF \/ isApproved
     \/ isExplicitlyApproved
     \/ source = "Database"
     \/ is_predefined_category
  THEN "Yes" ELSE "Likely"

\* ----------------------------------------------- generate_fees_table: the loops
\* what the loop body computes for one amount_info of one update; cand identifies
\* the candidate (the dict object) by its place in sorted_updates
Classify(update, amount_info, cand) ==
  LET source == SourceOf(update)
      fee_context == Strip(amount_info.context)
      original_category == ResolveCategory(amount_info.feeType, update.feeLabel)
      is_keys_fee == IsKeysFee(original_category)
      matched_category == IF is_keys_fee THEN None ELSE MatchedCategory(original_category)
      is_predefined_category == matched_category # None
      category == IF is_keys_fee THEN KeysFee
                  ELSE IF is_predefined_category THEN matched_category[1]
                  ELSE original_category
      table == TableOf(is_keys_fee, is_predefined_category)
  IN [key |-> DedupKey(amount_info.amount[1], category, fee_context),
      source |-> source,
      table |-> table,
      entry |-> [cand |-> cand,
                 amount |-> Fmt2(amount_info.amount[1]),
                 referenceSentence |-> fee_context,
                 approved |-> ApprovalOf(update.isApproved,
                                         amount_info.isExplicitlyApproved,
                                         source, is_predefined_category),
                 category |-> IF table = "other" THEN original_category ELSE category,
                 source |-> source,
                 originalCategory |-> original_category,
                 matched |-> (source = "Database" \/ is_predefined_category \/ is_keys_fee),
                 matchedAs |-> IF source = "Database" THEN "Repo Fee Matrix"
                               ELSE IF is_predefined_category THEN "Pre-approved Non-Repo"
                               ELSE IF is_keys_fee THEN "Keys Fee"
                               ELSE "Unmatched"]]

\* float(amount) raises ValueError (caught: continue) or the amount is not positive
AmountRejected(amount_info) == amount_info.amount = None \/ amount_info.amount[1] <= 0

\* one pass of the inner loop: one amount_info of sorted_updates[i]
ProcessAmount ==
  /\ pc = "loop"
  /\ i <= Len(sorted_updates)
  /\ j <= Len(sorted_updates[i].amounts)
  /\ j' = j + 1
  /\ LET update == sorted_updates[i]
         amount_info == update.amounts[j]
     IN IF AmountRejected(amount_info)
        THEN UNCHANGED <<seen, all_fees_table, keys_fees_table, predefined_fees_table,
                         other_fees_table, skipped>>
        ELSE LET c == Classify(update, amount_info, <<i, j>>)
             IN IF IsDuplicate(c.key, seen)
                THEN /\ skipped' = Append(skipped, <<i, j>>)
                     /\ UNCHANGED <<seen, all_fees_table, keys_fees_table,
                                    predefined_fees_table, other_fees_table>>
                ELSE /\ seen' = seen \cup {c.key}
                     /\ skipped' = skipped
                     /\ IF InTables(c.source)
                        THEN /\ all_fees_table' = Append(all_fees_table, c.entry)
                             /\ keys_fees_table' =
                                  IF c.table = "keys" THEN Append(keys_fees_table, c.entry)
                                  ELSE keys_fees_table
                             /\ predefined_fees_table' =
                                  IF c.table = "predefined"
                                  THEN Append(predefined_fees_table, c.entry)
                                  ELSE predefined_fees_table
                             /\ other_fees_table' =
                                  IF c.table = "other" THEN Append(other_fees_table, c.entry)
                                  ELSE other_fees_table
                        ELSE UNCHANGED <<all_fees_table, keys_fees_table,
                                         predefined_fees_table, other_fees_table>>
  /\ UNCHANGED <<inputVars, fee_updates, pc, lookupVars, sorted_updates, i>>

\* the inner loop is exhausted: the outer loop takes the next update
NextUpdate ==
  /\ pc = "loop"
  /\ i <= Len(sorted_updates)
  /\ j > Len(sorted_updates[i].amounts)
  /\ i' = i + 1
  /\ j' = 1
  /\ UNCHANGED <<inputVars, fee_updates, pc, lookupVars, sorted_updates, seen,
                 all_fees_table, keys_fees_table, predefined_fees_table,
                 other_fees_table, skipped>>

\* both loops are exhausted: the tables are returned
Return ==
  /\ pc = "loop"
  /\ i > Len(sorted_updates)
  /\ pc' = "done"
  /\ UNCHANGED <<inputVars, fee_updates, lookupVars, tableVars>>

\* the deduplication pass as a function of the list it is run on: the renaming, the
\* sort and the two loops, with the same loop body as ProcessAmount
EmptyPass ==
  [seen |-> {}, all |-> <<>>, keys |-> <<>>, predefined |-> <<>>, other |-> <<>>,
   dropped |-> 0]

PassStep(st, update, amount_info) ==
  IF AmountRejected(amount_info) THEN st
  ELSE LET c == Classify(update, amount_info, <<0, 0>>)
       IN IF IsDuplicate(c.key, st.seen)
          THEN [st EXCEPT !.dropped = @ + 1]
          ELSE IF InTables(c.source)
               THEN [st EXCEPT
                       !.seen = @ \cup {c.key},
                       !.all = Append(@, c.entry),
                       !.keys = IF c.table = "keys" THEN Append(@, c.entry) ELSE @,
                       !.predefined = IF c.table = "predefined" THEN Append(@, c.entry)
                                      ELSE @,
                       !.other = IF c.table = "other" THEN Append(@, c.entry) ELSE @]
               ELSE [st EXCEPT !.seen = @ \cup {c.key}]

RECURSIVE PassAmounts(_, _, _)
PassAmounts(st, update, k) ==
  IF k > Len(update.amounts) THEN st
  ELSE PassAmounts(PassStep(st, update, update.amounts[k]), update, k + 1)

RECURSIVE PassUpdates(_, _, _)
PassUpdates(st, updates, k) ==
  IF k > Len(updates) THEN st
  ELSE PassUpdates(PassAmounts(st, updates[k], 1), updates, k + 1)

DedupPass(updates) ==
  PassUpdates(EmptyPass,
              SortByPriority([k \in 1..Len(updates) |-> RenameCasePage(updates[k])]), 1)

Next ==
  \/ Begin
  \/ Connect
  \/ QueryClient
  \/ QueryLienholder
  \/ QueryFeeType
  \/ PrimaryLookup
  \/ QueryStandard
  \/ FallbackLookup
  \/ QueryRaises
  \/ Prepare
  \/ ProcessAmount
  \/ NextUpdate
  \/ Return


\* ------------------------------------------------------------------ inputs
CtxTow == <<"T","o","w"," ","f","e","e">>
CtxTowLoose == <<" ","t","o","w"," "," ","F","E","E"," ">>
FtKeysUpper == <<"K","E","Y","S"," ","F","E","E">>
FtTowing == <<"T","o","w","i","n","g">>
FtBonusKey == <<"B","o","n","u","s"," ","K","e","y">>
FtFlatbed == <<"F","l","a","t","b","e","d">>
FtFuel == <<"F","u","e","l">>
LblFlatbedUpper == <<"F","L","A","T","B","E","D"," ","F","E","E","S">>

AmountInfo(amount, context, feeType, approved) ==
  [amount |-> amount, context |-> context, feeType |-> feeType,
   isExplicitlyApproved |-> approved]

AI_Tow == AmountInfo(Some(45000), CtxTow, EmptyStr, FALSE)
AI_TowLoose == AmountInfo(Some(45001), CtxTowLoose, EmptyStr, TRUE)
AI_Key == AmountInfo(Some(45000), CtxTow, FtKeysUpper, FALSE)
AI_BonusKey == AmountInfo(Some(45000), CtxTow, FtBonusKey, FALSE)
AI_Towing == AmountInfo(Some(45000), CtxTow, FtTowing, FALSE)
AI_Flatbed == AmountInfo(Some(120000), CtxTow, FtFlatbed, FALSE)
AI_Zero == AmountInfo(Some(0), CtxTow, EmptyStr, FALSE)
AI_Bad == AmountInfo(None, CtxTow, EmptyStr, FALSE)
AI_Fuel == AmountInfo(Some(45000), CtxTow, FtFuel, FALSE)
\* the amount_info navigate_to_case builds for a key fee scanned off the case page
AI_PageKey == AmountInfo(Some(45000), CtxTow, KeysFee, FALSE)
AI_DbTwin == AmountInfo(Some(300000), DbContext(InvoluntaryRepo, Acme, AcmeBank),
                        InvoluntaryRepo, FALSE)

Update(source, feeLabel, isApproved, amounts) ==
  [source |-> source, feeLabel |-> feeLabel, isApproved |-> isApproved,
   amounts |-> amounts]

\* ------------------------------------------------------- regular expressions
\* A pattern of the re module as a tree; Match gives, for a start position, every
\* way the pattern matches there, in the order in which the backtracking matcher
\* tries them: the first one is the match re returns.  e is the position after the
\* match, g the span of group 1 (<<>> when the group took no part).
Digits == {"0", "1", "2", "3", "4", "5", "6", "7", "8", "9"}
WordChars == {c \in Chars : c \notin {" ", "\t", "\n", "/", "(", ")", "'", "-", ".", "$", ",", ":"}}

Set(chars) == [op |-> "set", chars |-> chars]
Dot == [op |-> "set", chars |-> Chars \ {"\n"}]
Sp == Set({" ", "\t", "\n"})
Dg == Set(Digits)
Sq(parts) == [op |-> "seq", parts |-> parts]
Lit(str) == Sq([k \in 1..Len(str) |-> Set({str[k]})])
Alt(parts) == [op |-> "alt", parts |-> parts]
Rep(r, min, max, greedy) == [op |-> "rep", r |-> r, min |-> min, max |-> max, greedy |-> greedy]
Star(r) == Rep(r, 0, -1, TRUE)
Plus(r) == Rep(r, 1, -1, TRUE)
Opt(r) == Rep(r, 0, 1, TRUE)
LazyStar(r) == Rep(r, 0, -1, FALSE)
Cap(r) == [op |-> "cap", r |-> r]
WordBoundary == [op |-> "wb"]

At(e, g) == [e |-> e, g |-> g]

\* the results rbs of the rest of a pattern, after the result ra of its first part
Continue(ra, rbs) ==
  [n \in 1..Len(rbs) |-> At(rbs[n].e, IF rbs[n].g # <<>> THEN rbs[n].g ELSE ra.g)]

IsWordAt(s, p) == p >= 1 /\ p <= Len(s) /\ s[p] \in WordChars

RECURSIVE Match(_, _, _)
RECURSIVE MatchSeq(_, _, _, _)
RECURSIVE MatchSeqRest(_, _, _, _, _)
RECURSIVE MatchAlt(_, _, _, _)
RECURSIVE MatchRep(_, _, _, _)
RECURSIVE MatchRepRest(_, _, _, _, _)

Match(r, s, p) ==
  CASE r.op = "set" -> IF p <= Len(s) /\ s[p] \in r.chars THEN <<At(p + 1, <<>>)>> ELSE <<>>
    [] r.op = "seq" -> MatchSeq(r.parts, 1, s, p)
    [] r.op = "alt" -> MatchAlt(r.parts, 1, s, p)
    [] r.op = "rep" -> MatchRep(r, s, p, 0)
    [] r.op = "cap" -> LET rs == Match(r.r, s, p)
                       IN [n \in 1..Len(rs) |-> At(rs[n].e, <<p, rs[n].e>>)]
    [] r.op = "wb" -> IF IsWordAt(s, p - 1) # IsWordAt(s, p) THEN <<At(p, <<>>)>> ELSE <<>>

MatchSeq(parts, k, s, p) ==
  IF k > Len(parts) THEN <<At(p, <<>>)>>
  ELSE MatchSeqRest(Match(parts[k], s, p), 1, parts, k, s)

MatchSeqRest(ras, n, parts, k, s) ==
  IF n > Len(ras) THEN <<>>
  ELSE Continue(ras[n], MatchSeq(parts, k + 1, s, ras[n].e))
         \o MatchSeqRest(ras, n + 1, parts, k, s)

MatchAlt(parts, k, s, p) ==
  IF k > Len(parts) THEN <<>>
  ELSE Match(parts[k], s, p) \o MatchAlt(parts, k + 1, s, p)

MatchRep(r, s, p, count) ==
  LET stop == IF count >= r.min THEN <<At(p, <<>>)>> ELSE <<>>
      more == IF r.max = -1 \/ count < r.max
              THEN MatchRepRest(SelectSeq(Match(r.r, s, p), LAMBDA ra : ra.e > p),
                                1, r, s, count)
              ELSE <<>>
  IN IF r.greedy THEN more \o stop ELSE stop \o more

MatchRepRest(ras, n, r, s, count) ==
  IF n > Len(ras) THEN <<>>
  ELSE Continue(ras[n], MatchRep(r, s, ras[n].e, count + 1))
         \o MatchRepRest(ras, n + 1, r, s, count)

\* pattern.finditer(text): the leftmost match from position from on, then on from
\* its end; a match is [start, e, g]
RECURSIVE FindIter(_, _, _)
FindIter(r, s, from) ==
  LET starts == {p \in from..(Len(s) + 1) : Match(r, s, p) # <<>>}
  IN IF starts = {} THEN <<>>
     ELSE LET p == CHOOSE q \in starts : \A q2 \in starts : q <= q2
              m == Match(r, s, p)[1]
          IN <<[start |-> p, e |-> m.e, g |-> m.g]>>
               \o FindIter(r, s, IF m.e > p THEN m.e ELSE m.e + 1)

\* [0-9,]+(\.[0-9]{2})?
NumberComma == Sq(<<Plus(Set(Digits \cup {","})), Opt(Sq(<<Set({"."}), Dg, Dg>>))>>)
\* \d+(?:,\d+)*(?:\.\d+)?
NumberGrouped ==
  Sq(<<Plus(Dg), Star(Sq(<<Set({","}), Plus(Dg)>>)), Opt(Sq(<<Set({"."}), Plus(Dg)>>))>>)
\* \$\s*( ... )
DollarAmount == Sq(<<Set({"$"}), Star(Sp), Cap(NumberComma)>>)


\* the patterns of extract_fee_information (IGNORECASE ones are matched against
\* the lower-cased text)
money_regex == DollarAmount
amount_regex == Sq(<<Cap(NumberComma), Star(Sp), Lit(<<"d","o","l","l","a","r","s">>)>>)
approved_regex ==
  Sq(<<Lit(<<"a","p","p","r","o","v","e","d">>), Plus(Sp),
       Alt(<<Lit(<<"f","e","e">>), Lit(<<"a","m","o","u","n","t">>), Lit(<<"p","a","y","m","e","n","t">>), Lit(<<"c","o","s","t">>), Lit(<<"c","h","a","r","g","e">>)>>),
       Opt(Set({"s"})), Plus(Sp),
       Opt(Alt(<<Lit(<<"o","f">>), Lit(<<"f","o","r">>), Lit(<<":">>)>>)),
       Star(Sp), Opt(Set({"$"})), Star(Sp), Cap(NumberComma)>>)
numeric_amount_regex ==
  Sq(<<WordBoundary, Cap(NumberGrouped), Star(Sp),
       Alt(<<Lit(<<"f","e","e">>), Lit(<<"c","h","a","r","g","e">>), Lit(<<"p","a","y","m","e","n","t">>), Lit(<<"p","a","i","d">>), Lit(<<"c","o","s","t">>), Lit(<<"i","n","v","o","i","c","e">>)>>)>>)
cost_pattern_regex ==
  Sq(<<Alt(<<Lit(<<"c","o","s","t">>), Lit(<<"f","e","e">>), Lit(<<"c","h","a","r","g","e">>)>>),
       Opt(Set({"s"})), Plus(Sp),
       Alt(<<Lit(<<"o","f">>), Lit(<<"i","s">>), Lit(<<":">>)>>),
       Star(Sp), Cap(NumberGrouped)>>)
authorized_regex ==
  Sq(<<Alt(<<Lit(<<"a","u","t","h","o","r","i","z","e","d">>), Lit(<<"a","p","p","r","o","v","e","d">>),
             Sq(<<Lit(<<"a","u","t","h">>), Opt(Set({"."}))>>)>>),
       Opt(Sq(<<Plus(Sp), Alt(<<Lit(<<"f","o","r">>), Lit(<<"t","o">>), Lit(<<":">>)>>)>>)),
       Star(Sp), Cap(NumberGrouped)>>)

\* the patterns of scan_for_key_fees, in the order of its list
key_patterns ==
  << Sq(<<Alt(<<Sq(<<Lit(<<"p","u","s","h">>), Plus(Sp), Lit(<<"t","o">>), Plus(Sp), Lit(<<"s","t","a","r","t">>), Plus(Sp), Lit(<<"k","e","y">>)>>),
                 Sq(<<Lit(<<"k","e","y">>), Plus(Sp), Lit(<<"m","a","d","e">>)>>)>>),
          LazyStar(Dot), Opt(Lit(<<"f","o","r">>)), Star(Sp), DollarAmount>>),
     Sq(<<Lit(<<"a","d","v","i","s","e">>), LazyStar(Dot), Alt(<<Lit(<<"k","e","y">>), Lit(<<"p","u","s","h">>)>>),
          LazyStar(Dot), Opt(Lit(<<"f","o","r">>)), Star(Sp), DollarAmount>>),
     Sq(<<Alt(<<Lit(<<"v","e","h","i","c","l","e">>), Lit(<<"c","a","r">>)>>), LazyStar(Dot), Alt(<<Lit(<<"k","e","y">>), Lit(<<"p","u","s","h">>)>>),
          LazyStar(Dot), Opt(Lit(<<"f","o","r">>)), Star(Sp), DollarAmount>>),
     Sq(<<Alt(<<Lit(<<"f","e","e">>), Lit(<<"c","h","a","r","g","e">>), Lit(<<"c","o","s","t">>), Lit(<<"a","m","o","u","n","t">>), Lit(<<"p","a","y","m","e","n","t">>)>>),
          LazyStar(Dot), DollarAmount>>),
     DollarAmount >>

\* ------------------------------------------------------------ fee extraction
DigitValue ==
  [c \in Digits |-> CASE c = "0" -> 0 [] c = "1" -> 1 [] c = "2" -> 2 [] c = "3" -> 3
                      [] c = "4" -> 4 [] c = "5" -> 5 [] c = "6" -> 6 [] c = "7" -> 7
                      [] c = "8" -> 8 [] c = "9" -> 9]

\* str.replace(',', '')
RemoveCommas(t) == SelectSeq(t, LAMBDA c : c # ",")

\* the texts float() accepts among those the patterns can capture: digits with at
\* most one point and at least one digit
IsNumeric(t) ==
  /\ \A k \in DOMAIN t : t[k] \in Digits \cup {"."}
  /\ Cardinality({k \in DOMAIN t : t[k] = "."}) <= 1
  /\ \E k \in DOMAIN t : t[k] \in Digits

RECURSIVE DigitsValue(_)
DigitsValue(t) ==
  IF t = <<>> THEN 0 ELSE 10 * DigitsValue(SubSeq(t, 1, Len(t) - 1)) + DigitValue[t[Len(t)]]

\* float(t) in mils, for a numeric t
MilsOf(t) ==
  LET points == {k \in DOMAIN t : t[k] = "."}
      point == IF points = {} THEN Len(t) + 1 ELSE CHOOSE k \in points : TRUE
      whole == SubSeq(t, 1, point - 1)
      frac == SubSeq(SubSeq(t, point + 1, Len(t)) \o <<"0", "0", "0">>, 1, 3)
  IN 1000 * DigitsValue(whole) + DigitsValue(frac)

\* the amount text of a candidate as generate_fees_table reads it with float():
\* None where float() raises ValueError
ToAmount(t) == IF IsNumeric(t) THEN Some(MilsOf(t)) ELSE None

\* content[max(0, match.start() - width) : min(len(content), match.end() + width)]
ContextWindow(content, m, width) ==
  SubSeq(content, Max2(0, (m.start - 1) - width) + 1, Min2(Len(content), (m.e - 1) + width))

\* match.group(1).replace(',', '')
AmountText(content, m) == RemoveCommas(SubSeq(content, m.g[1], m.g[2] - 1))

\* the entries one pattern of extract_fee_information appends to amounts
AmountsOf(pattern, matched_text, content, approved) ==
  LET ms == FindIter(pattern, matched_text, 1)
  IN [k \in 1..Len(ms) |->
        AmountInfo(ToAmount(AmountText(content, ms[k])), ContextWindow(content, ms[k], 30),
                   EmptyStr, approved)]

\* extract_fee_information.is_fee_related
is_fee_related(text) ==
  LET text_lower == Lower(text)
  IN \/ Contains(text, <<"$">>)
     \/ Contains(text_lower, <<"f","e","e">>)
     \/ Contains(text_lower, <<"p","a","y","m","e","n","t">>)
     \/ Contains(text_lower, <<"a","m","o","u","n","t">>)
     \/ Contains(text_lower, <<"c","h","a","r","g","e">>)
     \/ Contains(text_lower, <<"p","a","i","d">>)
     \/ Contains(text_lower, <<"i","n","v","o","i","c","e">>)
     \/ Contains(text_lower, <<"c","o","s","t">>)
     \/ Contains(text_lower, <<"a","p","p","r","o","v","e","d">>)
     \/ Contains(text_lower, <<"a","u","t","h">>)
     \/ Contains(text_lower, <<"t","o","w">>)
     \/ Contains(text_lower, <<"r","e","p","o">>)
     \/ Contains(text_lower, <<"s","t","o","r","a","g","e">>)
     \/ Contains(text_lower, <<"s","e","r","v","i","c","e">>)
     \/ Contains(text_lower, <<"t","r","a","n","s","p","o","r","t">>)
     \/ Contains(text_lower, <<"m","i","l","e","a","g","e">>)
     \/ Contains(text_lower, <<"r","e","c","o","v","e","r","y">>)
     \/ Contains(text_lower, <<"a","u","t","h","o","r","i","z","a","t","i","o","n">>)
     \/ Contains(text_lower, <<"d","o","l","l","a","r","s">>)
     \/ /\ \/ Contains(text_lower, <<"t","o","t","a","l">>)
           \/ Contains(text_lower, <<"k","e","y">>)
           \/ Contains(text_lower, <<"a","d","m","i","n">>)
           \/ Contains(text_lower, <<"p","r","o","c","e","s","s","i","n","g">>)
        /\ \E k \in DOMAIN text_lower : text_lower[k] \in Digits

\* update.get('content', '') or update.get('fullText', '')
ContentOf(update) == IF update.content # EmptyStr THEN update.content ELSE update.fullText

\* the amounts list built for one fee-related update
ExtractAmounts(content) ==
  LET content_lower == Lower(content)
  IN AmountsOf(money_regex, content, content, FALSE)
       \o AmountsOf(amount_regex, content_lower, content, FALSE)
       \o AmountsOf(approved_regex, content_lower, content, TRUE)
       \o AmountsOf(numeric_amount_regex, content_lower, content, FALSE)
       \o AmountsOf(cost_pattern_regex, content_lower, content, FALSE)
       \o AmountsOf(authorized_regex, content_lower, content, TRUE)

\* 'approved' in content.lower() or 'authorization' in ... or 'authorize' in ...
ContentApproved(content) ==
  LET content_lower == Lower(content)
  IN \/ Contains(content_lower, <<"a","p","p","r","o","v","e","d">>)
     \/ Contains(content_lower, <<"a","u","t","h","o","r","i","z","a","t","i","o","n">>)
     \/ Contains(content_lower, <<"a","u","t","h","o","r","i","z","e">>)

\* max_updates_to_process = min(len(updates), 50); len(content) > 5000
MaxUpdatesToProcess == 50
MaxContentLen == 5000

\* what extract_fee_information appends for one update: nothing or one fee update
ExtractOne(update) ==
  LET content == ContentOf(update)
  IN IF Strip(content) = EmptyStr \/ Len(content) > MaxContentLen THEN <<>>
     ELSE IF ~is_fee_related(content) THEN <<>>
     ELSE IF ExtractAmounts(content) = <<>> THEN <<>>
     ELSE <<Update(Some("Updates"), EmptyStr, ContentApproved(content),
                   ExtractAmounts(content))>>

\* faulty variant of ExtractFrom: every update is looked at
RECURSIVE ExtractFrom_Uncapped(_, _)
ExtractFrom_Uncapped(updates, k) ==
  IF k > Len(updates) THEN <<>>
  ELSE ExtractOne(updates[k]) \o ExtractFrom_Uncapped(updates, k + 1)

\* extract_fee_information(updates): at most the first 50 updates are looked at
RECURSIVE ExtractFrom(_, _)
ExtractFrom(updates, k) ==
  IF k > Len(updates) \/ k > MaxUpdatesToProcess THEN <<>>
  ELSE ExtractOne(updates[k]) \o ExtractFrom(updates, k + 1)

extract_fee_information(updates) == ExtractFrom(updates, 1)

\* the fee type scan_for_key_fees derives from the context of a match
ScanFeeType(context) ==
  LET context_lower == Lower(context)
  IN IF Contains(context_lower, <<"p","u","s","h">>) \/ Contains(context_lower, <<"k","e","y">>) \/ Contains(context_lower, <<"v","e","h","i","c","l","e">>)
       THEN <<"K","e","y","s"," ","F","e","e">>
     ELSE IF Contains(context_lower, <<"m","i","l","e">>) \/ Contains(context_lower, <<"t","r","a","v","e","l">>) \/ Contains(context_lower, <<"d","i","s","t","a","n","c","e">>) \/ Contains(context_lower, <<"f","u","e","l">>) \/ Contains(context_lower, <<"g","a","s">>)
       THEN <<"M","i","l","e","a","g","e","/"," ","F","u","e","l">>
     ELSE IF Contains(context_lower, <<"f","l","a","t">>) \/ Contains(context_lower, <<"t","o","w">>) \/ Contains(context_lower, <<"w","i","n","c","h">>) \/ Contains(context_lower, <<"r","o","l","l","b","a","c","k">>)
       THEN <<"F","l","a","t","b","e","d"," ","F","e","e","s">>
     ELSE IF Contains(context_lower, <<"s","t","o","r","e">>) \/ Contains(context_lower, <<"s","t","o","r","a","g","e">>) \/ Contains(context_lower, <<"i","m","p","o","u","n","d">>) \/ Contains(context_lower, <<"l","o","t"," ","f","e","e">>)
       THEN <<"S","t","o","r","a","g","e"," ","F","e","e">>
     ELSE IF Contains(context_lower, <<"c","r">>) \/ Contains(context_lower, <<"c","o","n","d","i","t","i","o","n">>) \/ Contains(context_lower, <<"p","h","o","t","o">>) \/ Contains(context_lower, <<"p","i","c","t","u","r","e">>) \/ Contains(context_lower, <<"i","n","s","p","e","c","t","i","o","n">>)
       THEN <<"C","R"," ","A","N","D"," ","P","H","O","T","O","S"," ","F","E","E">>
     ELSE IF Contains(context_lower, <<"p","u","r","c","h","a","s","e">>) \/ Contains(context_lower, <<"c","o","s","t">>) \/ Contains(context_lower, <<"e","x","p","e","n","s","e">>)
       THEN <<"P","u","r","c","h","a","s","e"," ","C","o","s","t">>
     ELSE IF Contains(context_lower, <<"c","l","i","e","n","t">>)
       THEN <<"F","e","e"," ","T","o"," ","C","l","i","e","n","t">>
     ELSE UnknownFee

\* the results one pattern of scan_for_key_fees adds
ScanWith(pattern, text) ==
  LET ms == FindIter(pattern, Lower(text), 1)
  IN [k \in 1..Len(ms) |->
        LET context == ContextWindow(text, ms[k], 50)
        IN AmountInfo(ToAmount(AmountText(text, ms[k])), context, ScanFeeType(context),
                      FALSE)]

RECURSIVE ScanFrom(_, _)
ScanFrom(text, k) ==
  IF k > Len(key_patterns) THEN <<>>
  ELSE ScanWith(key_patterns[k], text) \o ScanFrom(text, k + 1)

\* scan_for_key_fees(text)
scan_for_key_fees(text) == IF text = EmptyStr THEN <<>> ELSE ScanFrom(text, 1)

\* navigate_to_case: one 'Case Page' update per scanned fee, always of type 'Keys Fee'
KeyFeeUpdates(key_fees) ==
  [k \in 1..Len(key_fees) |->
     Update(Some("Case Page"), EmptyStr, FALSE,
            <<AmountInfo(key_fees[k].amount, key_fees[k].context, KeysFee, FALSE)>>)]


\* the sources the tab scrapers set, a source no priority is defined for, no source
ScrapedSources == {Some("My Summary"), Some("Updates")}
OtherSources == {Some("Manual"), None}

\* the fee updates the callers may hand over
UpdatePool ==
  {Update(s, EmptyStr, FALSE, <<a>>) : s \in ScrapedSources, a \in {AI_Tow, AI_Key}}
  \cup {Update(s, EmptyStr, FALSE, <<AI_Tow>>) : s \in OtherSources}
  \cup {Update(Some("Case Page"), EmptyStr, FALSE, <<AI_PageKey>>),
        Update(Some("Updates"), EmptyStr, FALSE, <<AI_Fuel>>),
        Update(Some("My Summary"), LblFlatbedUpper, TRUE, <<AI_Tow>>),
        Update(Some("Updates"), LblFlatbedUpper, FALSE, <<AI_TowLoose>>),
        Update(Some("Updates"), EmptyStr, FALSE, <<AI_Tow, AI_TowLoose>>),
        Update(Some("Updates"), LblFlatbedUpper, FALSE, <<AI_Zero, AI_Bad, AI_Towing>>),
        Update(Some("Updates"), EmptyStr, FALSE, <<AI_DbTwin>>),
        Update(Some("Updates"), EmptyStr, FALSE, <<AI_BonusKey>>),
        Update(Some("My Summary"), EmptyStr, FALSE, <<AI_Flatbed>>),
        Update(Some("Updates"), EmptyStr, FALSE, <<>>)}

FeeLists == UNION {[1..n -> UpdatePool] : n \in 0..MaxUpdates}

CaseInfo(client, lienholder, repoType) ==
  Some([clientName |-> client, lienHolderName |-> lienholder, repoType |-> repoType])

CaseInfos ==
  {None} \cup {CaseInfo(c, l, t) : c \in {Acme, EmptyStr, NotFound},
                                    l \in {AcmeBank, EmptyStr, NotFound},
                                    t \in {InvoluntaryRepo, VoluntaryRepo, NotFound}}

MaybeIds == {None} \cup {Some(n) : n \in 0..MaxId}

\* a store with at most one client, one fee type, the requested lienholder (id lid)
\* and the Standard lienholder (id sid), and the FeeDetails2 rows exact / std
Store(hasClient, hasType, lid, sid, exact, std) ==
  [Client |-> IF hasClient THEN {[id |-> 1, name |-> Acme]} ELSE {},
   FeeType |-> IF hasType THEN {[id |-> 1, name |-> InvoluntaryRepo]} ELSE {},
   Lienholder |-> (IF lid = None THEN {} ELSE {[id |-> lid[1], name |-> AcmeBank]})
                  \cup (IF sid = None THEN {} ELSE {[id |-> sid[1], name |-> Standard]}),
   FeeDetails2 |->
     (IF lid = None \/ exact = None THEN {}
      ELSE {[fd_id |-> 10, client_id |-> 1, lh_id |-> lid[1], ft_id |-> 1,
             amount |-> exact[1]]})
     \cup (IF sid = None \/ std = None THEN {}
           ELSE {[fd_id |-> 11, client_id |-> 1, lh_id |-> sid[1], ft_id |-> 1,
                  amount |-> std[1]]})]

\* amounts of a FeeDetails2 row: absent row, 300.00, 250.00, or a NULL amount
Stores ==
  {Store(hc, ht, lid, sid, exact, std) :
     hc \in BOOLEAN, ht \in BOOLEAN, lid \in MaybeIds, sid \in MaybeIds,
     exact \in {None, Some(Some(300000))},
     std \in {None, Some(Some(250000)), Some(None)}}

WellFormed(store) ==
  \A r1 \in store.Lienholder, r2 \in store.Lienholder : r1.id = r2.id => r1 = r2

\* the schema discovery of lookup_repo_fee.py is not in use
NoSchema ==
  /\ tables_info = <<>> /\ table_k = 1
  /\ fee_table = None /\ client_table = None
  /\ lienholder_table = None /\ feetype_table = None
  /\ fallback_logged = FALSE

\* no run of start_scraping has got to its tabs: the globals are as the module sets them
NoScrape ==
  /\ my_summary_fees = <<>> /\ key_fee_updates = <<>>
  /\ saved = None /\ process_complete = None
  /\ cases_run = 1

InitLocals ==
  /\ NoSchema
  /\ NoScrape
  /\ pc = "start"
  /\ conn = "none" /\ connects = 0 /\ queries = <<>>
  /\ client_id = None /\ lienholder_id = None /\ fee_type_id = None
  /\ standard_lienholder_id = None /\ repo_fee_data = None /\ lookup_error = "none"
  /\ sorted_updates = <<>> /\ i = 1 /\ j = 1 /\ seen = {}
  /\ all_fees_table = <<>> /\ keys_fees_table = <<>>
  /\ predefined_fees_table = <<>> /\ other_fees_table = <<>>
  /\ skipped = <<>>

\* the cases the table generation is explored under
FeeScenarios ==
  {<<None, Store(FALSE, FALSE, None, None, None, None)>>,
   <<CaseInfo(Acme, AcmeBank, InvoluntaryRepo),
     Store(TRUE, TRUE, Some(1), Some(2), Some(Some(300000)), Some(Some(250000)))>>,
   <<CaseInfo(Acme, AcmeBank, InvoluntaryRepo),
     Store(TRUE, TRUE, None, Some(2), None, Some(None))>>}

\* the server while the one start_scraping thread of request 1 runs
InRun ==
  /\ scrape_in_progress = TRUE
  /\ handlers = <<[route |-> "start-scrape", pc |-> "done"]>>
  /\ threads = <<"registered">>
  /\ active_sessions = {1}
  /\ current_case_id = Some(1)
  /\ start_time = Some(1)

\* generate_fees_table on every list of fee updates
Init ==
  /\ InitLocals
  /\ \E sc \in FeeScenarios : current_case_info = sc[1] /\ db = sc[2]
  /\ fee_updates \in FeeLists
  /\ input_updates = fee_updates
  /\ scraped_updates = <<>> /\ page_html = EmptyStr
  /\ InRun

Spec == Init /\ [][Next]_vars

\* the list the lookup is explored with
LookupList ==
  << Update(Some("Updates"), EmptyStr, FALSE, <<AI_DbTwin>>),
     Update(Some("Case Page"), EmptyStr, FALSE, <<AI_PageKey>>),
     Update(Some("Updates"), EmptyStr, FALSE, <<AI_Key, AI_Zero>>),
     Update(Some("My Summary"), EmptyStr, FALSE, <<>>) >>

\* lookup_repo_fee on every case information and every store
InitLookup ==
  /\ InitLocals
  /\ current_case_info \in CaseInfos
  /\ db \in {s \in Stores : WellFormed(s)}
  /\ fee_updates = LookupList
  /\ input_updates = fee_updates
  /\ scraped_updates = <<>> /\ page_html = EmptyStr
  /\ InRun

SpecLookup == InitLookup /\ [][Next]_vars

\* ------------------------------------------------- the pipeline of start_scraping
\* the fee items scrape_my_summary_tab may return
\* (the last one reads like the context of the database record of Acme / Acme Bank)
MySummaryLists ==
  {<<>>,
   <<Update(Some("My Summary"), LblFlatbedUpper, TRUE, <<AI_Tow>>)>>,
   <<Update(Some("My Summary"), InvoluntaryRepo, TRUE,
            <<AmountInfo(Some(300000), DbContext(InvoluntaryRepo, Acme, AcmeBank),
                         EmptyStr, TRUE)>>)>>}

\* start_scraping up to the call of generate_fees_table: the fee updates extracted
\* from the Updates tab, the key fees scanned off the case page, and their combination
\* with the My Summary fees
ExtractFees ==
  /\ pc = "extract"
  /\ my_summary_fees' \in MySummaryLists
  /\ fee_updates' = my_summary_fees' \o extract_fee_information(scraped_updates)
                       \o key_fee_updates
  /\ input_updates' = fee_updates'
  /\ pc' = "start"
  /\ UNCHANGED <<current_case_info, db, scraped_updates, page_html, serverVars, schemaVars,
                 lookupVars, tableVars, key_fee_updates, saved, process_complete,
                 cases_run, configVars>>

\* navigate_to_case: the case page is scanned for key fees; the global is assigned
\* only when the scan found some
NavigateToCase ==
  /\ pc = "navigate"
  /\ LET key_fees == scan_for_key_fees(page_html)
     IN key_fee_updates' = IF key_fees # <<>> THEN KeyFeeUpdates(key_fees)
                           ELSE key_fee_updates
  /\ pc' = "extract"
  /\ UNCHANGED <<current_case_info, db, input_updates, scraped_updates, page_html,
                 serverVars, schemaVars, configVars, fee_updates, lookupVars, tableVars,
                 my_summary_fees, saved, process_complete, cases_run>>

\* --------------------------------------- start_scraping after generate_fees_table
\* the fee entry both manual blocks build for one amount of a My Summary fee
ManualEntry(fee, amount_info, cand) ==
  [cand |-> cand,
   amount |-> Fmt2(amount_info.amount[1]),
   referenceSentence |-> amount_info.context,
   approved |-> IF fee.isApproved \/ amount_info.isExplicitlyApproved THEN "Yes"
                ELSE "Likely",
   category |-> fee.feeLabel,
   source |-> "My Summary",
   originalCategory |-> fee.feeLabel,
   matched |-> FALSE,
   matchedAs |-> "My Summary"]

\* the place in sorted_updates of the k-th My Summary fee: the sort is stable and only
\* the Database records go before the My Summary fees
PlaceOf(k) ==
  k + Cardinality({n \in DOMAIN sorted_updates : SourceOf(sorted_updates[n]) = "Database"})

\* the entries of one My Summary fee: amounts float() rejects or that are not positive
\* are passed over
RECURSIVE ManualOf(_, _, _)
ManualOf(fee, k, l) ==
  IF l > Len(fee.amounts) THEN <<>>
  ELSE (IF AmountRejected(fee.amounts[l]) THEN <<>>
        ELSE <<ManualEntry(fee, fee.amounts[l], <<PlaceOf(k), l>>)>>)
       \o ManualOf(fee, k, l + 1)

RECURSIVE ManualFrom(_, _)
ManualFrom(fees, k) ==
  IF k > Len(fees) THEN <<>>
  ELSE ManualOf(fees[k], k, 1) \o ManualFrom(fees, k + 1)

ManualEntries(fees) == ManualFrom(fees, 1)

\* the table the first manual block appends an entry to
ManualTable(entry) ==
  LET category == Lower(entry.category)
  IN IF Contains(category, KeysFeeLower) \/ Contains(category, KeyFeeLower) THEN "keys"
     ELSE IF ExactMatches(category) # {} THEN "predefined"
     ELSE "other"

InTable(entries, table) == SelectSeq(entries, LAMBDA e : ManualTable(e) = table)

\* "if len(all_fees_table) == 0 and len(my_summary_fees) > 0"
ManualPath(all_fees) == Len(all_fees) = 0 /\ Len(my_summary_fees) > 0

\* keys_terms and is_keys_fee of the event: a term in the category or in the reference
keys_terms == <<KeyFeeLower, KeysFeeLower, <<"k","e","y"," ","c","h","a","r","g","e">>, <<"k","e","y","s"," ","c","h","a","r","g","e">>>>

HasKeysTerm(text) == \E t \in DOMAIN keys_terms : Contains(Lower(text), keys_terms[t])

is_keys_fee(fee) == HasKeysTerm(fee.category) \/ HasKeysTerm(fee.referenceSentence)

\* the table the event lists a fee of all_fees_table in
EventTable(fee) ==
  IF is_keys_fee(fee) THEN "keys"
  ELSE IF fee.category = <<"O","t","h","e","r">> THEN "other"
  ELSE "predefined"

\* the table the second manual block lists a manual fee in
ManualEventTable(fee) ==
  IF HasKeysTerm(fee.category) THEN "keys"
  ELSE IF Lower(fee.category) = <<"o","t","h","e","r">> THEN "other"
  ELSE "predefined"

\* the entry of the second manual block has no originalCategory
ManualFee(entry) == [f \in DOMAIN entry \ {"originalCategory"} |-> entry[f]]

\* start_scraping from the return of generate_fees_table on: the manual My Summary
\* block, save_data, the tables of the event, the second manual block, the emit
CompleteScrape ==
  /\ pc = "done"
  /\ LET manual == IF ManualPath(all_fees_table) THEN ManualEntries(my_summary_fees)
                   ELSE <<>>
         all == all_fees_table \o manual
         predefined == predefined_fees_table \o InTable(manual, "predefined")
         keys == keys_fees_table \o InTable(manual, "keys")
         other == other_fees_table \o InTable(manual, "other")
         filtered_fees == SelectSeq(all, LAMBDA f : f.source # "Database")
         manual_fees == [k \in DOMAIN manual |-> ManualFee(manual[k])]
         final_all_fees == IF ManualPath(all) THEN manual_fees ELSE filtered_fees
         table(f) == IF ManualPath(all) THEN ManualEventTable(f) ELSE EventTable(f)
     IN /\ all_fees_table' = all
        /\ predefined_fees_table' = predefined
        /\ keys_fees_table' = keys
        /\ other_fees_table' = other
        /\ saved' = Some([all_fees_table |-> all,
                          predefinedFeesTable |-> predefined,
                          keysFeesTable |-> keys,
                          otherFeesTable |-> other,
                          fee_updates |-> extract_fee_information(scraped_updates),
                          case_id |-> current_case_id])
        /\ process_complete' =
             Some([caseId |-> current_case_id,
                   predefinedFeesTable |->
                     SelectSeq(final_all_fees, LAMBDA f : table(f) = "predefined"),
                   keysFeesTable |-> SelectSeq(final_all_fees, LAMBDA f : table(f) = "keys"),
                   otherFeesTable |->
                     SelectSeq(final_all_fees, LAMBDA f : table(f) = "other"),
                   allFeesTable |-> final_all_fees,
                   databaseFees |-> SelectSeq(all, LAMBDA f : f.source = "Database")])
  /\ pc' = "emitted"
  /\ UNCHANGED <<current_case_info, db, input_updates, scraped_updates, page_html,
                 serverVars, schemaVars, configVars, fee_updates, lookupVars,
                 sorted_updates, i, j, seen, skipped, my_summary_fees, key_fee_updates,
                 cases_run>>

NextPipeline == NavigateToCase \/ ExtractFees \/ Next \/ CompleteScrape

\* the update blocks of the Updates tab
Block(content, fullText) == [content |-> content, fullText |-> fullText]
B_PushKey == Block(<<"p","u","s","h"," ","t","o"," ","s","t","a","r","t"," ","k","e","y"," ","m","a","d","e"," ","f","o","r"," ","$","4","5",".","0","0"," ","o","n"," ","t","h","e"," ","v","e","h","i","c","l","e">>, EmptyStr)
B_Waived == Block(<<"f","e","e"," ","w","a","i","v","e","d"," ","$","0",".","0","0">>, EmptyStr)
B_Approved == Block(<<"A","p","p","r","o","v","e","d"," ","f","e","e"," ","o","f"," ","$","4","5",".","0","0">>, EmptyStr)
B_NoAmount == Block(<<"n","o"," ","c","h","a","r","g","e"," ","h","e","r","e">>, EmptyStr)
B_Comma == Block(<<"p","a","i","d"," ","$",","," ","t","h","a","n","k","s">>, EmptyStr)
B_FullText == Block(EmptyStr, <<"t","o","w"," ","c","o","s","t"," ","o","f"," ","1","2","0">>)
B_Blank == Block(<<" "," ">>, EmptyStr)
B_LongApproved == Block(<<"a","g","e","n","t"," ","c","a","l","l","e","d"," ","i","n",":"," ","a","p","p","r","o","v","e","d"," ","f","e","e"," ","o","f"," ","$","4","5",".","0","0">>, EmptyStr)
BlockPool == {B_PushKey, B_Waived, B_Approved, B_NoAmount, B_Comma, B_FullText, B_Blank,
              B_LongApproved}
BlockLists == UNION {[1..n -> BlockPool] : n \in 0..MaxBlocks}

\* the case page texts
PageNone == EmptyStr
PageKey == <<"k","e","y"," ","m","a","d","e"," ","f","o","r"," ","$","4","5",".","0","0">>
PageCost == <<"c","o","s","t"," ","$","0",".","0","0">>
PagePool == {PageNone, PageKey, PageCost}

\* the cases the pipeline is explored under: the two with a usable case information
PipelineScenarios == {sc \in FeeScenarios : sc[1] # None}

InitPipeline ==
  /\ pc = "navigate"
  /\ conn = "none" /\ connects = 0 /\ queries = <<>>
  /\ client_id = None /\ lienholder_id = None /\ fee_type_id = None
  /\ standard_lienholder_id = None /\ repo_fee_data = None /\ lookup_error = "none"
  /\ sorted_updates = <<>> /\ i = 1 /\ j = 1 /\ seen = {}
  /\ all_fees_table = <<>> /\ keys_fees_table = <<>>
  /\ predefined_fees_table = <<>> /\ other_fees_table = <<>>
  /\ skipped = <<>>
  /\ \E sc \in PipelineScenarios : current_case_info = sc[1] /\ db = sc[2]
  /\ scraped_updates \in BlockLists
  /\ NoSchema
  /\ NoScrape
  /\ InRun
  /\ page_html \in PagePool
  /\ fee_updates = <<>>
  /\ input_updates = <<>>

SpecPipeline == InitPipeline /\ [][NextPipeline]_vars

\* ----------------------------------------------- one case after the other
\* a run of start_scraping has ended and the next start-scrape request has got its
\* thread to navigate_to_case on another case page. The locals are new; the global
\* key_fee_updates is the module's, and the dicts in it are the ones generate_fees_table
\* renamed the source of
StartNextCase ==
  /\ pc \in {"emitted", "raised"}
  /\ cases_run < MaxCases
  /\ cases_run' = cases_run + 1
  /\ page_html' \in PagePool
  /\ key_fee_updates' = IF pc = "emitted"
                        THEN [k \in DOMAIN key_fee_updates |->
                                RenameCasePage(key_fee_updates[k])]
                        ELSE key_fee_updates
  /\ pc' = "navigate"
  /\ conn' = "none" /\ connects' = 0 /\ queries' = <<>>
  /\ client_id' = None /\ lienholder_id' = None /\ fee_type_id' = None
  /\ standard_lienholder_id' = None /\ repo_fee_data' = None /\ lookup_error' = "none"
  /\ sorted_updates' = <<>> /\ i' = 1 /\ j' = 1 /\ seen' = {}
  /\ all_fees_table' = <<>> /\ keys_fees_table' = <<>>
  /\ predefined_fees_table' = <<>> /\ other_fees_table' = <<>>
  /\ skipped' = <<>>
  /\ fee_updates' = <<>> /\ input_updates' = <<>>
  /\ my_summary_fees' = <<>> /\ saved' = None /\ process_complete' = None
  /\ UNCHANGED <<current_case_info, db, scraped_updates, serverVars, schemaVars,
                 configVars>>

NextCases == NextPipeline \/ StartNextCase

\* a server process that scrapes cases with an empty Updates tab
InitCases ==
  /\ pc = "navigate"
  /\ conn = "none" /\ connects = 0 /\ queries = <<>>
  /\ client_id = None /\ lienholder_id = None /\ fee_type_id = None
  /\ standard_lienholder_id = None /\ repo_fee_data = None /\ lookup_error = "none"
  /\ sorted_updates = <<>> /\ i = 1 /\ j = 1 /\ seen = {}
  /\ all_fees_table = <<>> /\ keys_fees_table = <<>>
  /\ predefined_fees_table = <<>> /\ other_fees_table = <<>>
  /\ skipped = <<>>
  /\ \E sc \in PipelineScenarios : current_case_info = sc[1] /\ db = sc[2]
  /\ scraped_updates = <<>>
  /\ NoSchema
  /\ NoScrape
  /\ InRun
  /\ page_html \in PagePool
  /\ fee_updates = <<>>
  /\ input_updates = <<>>

SpecCases == InitCases /\ [][NextCases]_vars

\* ------------------------------------------- extract_fee_information on long tabs
\* a block of more than 5000 characters that starts with a dollar amount
B_Huge ==
  Block([k \in 1..(MaxContentLen + 1) |->
           IF k <= 5 THEN <<"$", "1", ".", "0", "0">>[k] ELSE "x"], EmptyStr)

\* n blocks, all alike but for one of them
Tab(n, block, at, other) == [k \in 1..n |-> IF k = at THEN other ELSE block]

\* tabs around the limit of 50: key blocks with a blank or an oversized block at the
\* front, just below the limit and just above it
LongTabs ==
  {Tab(n, B_PushKey, at, other) :
     n \in (MaxScraped - 3)..MaxScraped,
     at \in {1, MaxUpdatesToProcess, MaxUpdatesToProcess + 1},
     other \in {B_PushKey, B_Blank, B_Huge}}

\* the state in front of the extraction, on a long tab
InitExtraction ==
  /\ pc = "navigate"
  /\ conn = "none" /\ connects = 0 /\ queries = <<>>
  /\ client_id = None /\ lienholder_id = None /\ fee_type_id = None
  /\ standard_lienholder_id = None /\ repo_fee_data = None /\ lookup_error = "none"
  /\ sorted_updates = <<>> /\ i = 1 /\ j = 1 /\ seen = {}
  /\ all_fees_table = <<>> /\ keys_fees_table = <<>>
  /\ predefined_fees_table = <<>> /\ other_fees_table = <<>>
  /\ skipped = <<>>
  /\ current_case_info = None /\ db = Store(FALSE, FALSE, None, None, None, None)
  /\ scraped_updates \in LongTabs
  /\ page_html \in {PageNone, PageKey}
  /\ NoSchema
  /\ NoScrape
  /\ InRun
  /\ fee_updates = <<>>
  /\ input_updates = <<>>

\* the extraction alone
SpecExtraction == InitExtraction /\ [][NavigateToCase \/ ExtractFees]_vars

\* ------------------------------------------------------------ the HTTP routes
\* The server handles each request in a thread of its own (async_mode='threading');
\* a handler is interrupted between its statements, so that its read of
\* scrape_in_progress and its later write are two steps.
Routes == {"start-scrape", "login", "logout"}
Requests == 1..MaxRequests

Handler(route, at) == [route |-> route, pc |-> at]
HandlerAt(r, route, at) == handlers[r] = Handler(route, at)
Goto(r, at) == handlers' = [handlers EXCEPT ![r].pc = at]

\* start_scrape_route up to the assignment: the test of the flag and of the case id
StartScrapeCheck(r) ==
  /\ HandlerAt(r, "start-scrape", "new")
  /\ \E hasCaseId \in BOOLEAN :
       Goto(r, IF scrape_in_progress \/ ~hasCaseId THEN "rejected" ELSE "checked")
  /\ UNCHANGED <<runVars, scrape_in_progress, threads, active_sessions, configVars>>

\* the case ids the requests carry
CaseIds == {1, 2}

\* start_scrape_route from the assignment on: the flag is set, the thread is started
StartScrapeStart(r) ==
  /\ HandlerAt(r, "start-scrape", "checked")
  /\ \E case_id \in CaseIds : current_case_id' = Some(case_id)
  /\ scrape_in_progress' = TRUE
  /\ start_time' = Some(r)
  /\ threads' = [threads EXCEPT ![r] = "started"]
  /\ Goto(r, "done")
  /\ UNCHANGED <<runVars, active_sessions>>

\* login_route: the credentials are stored, and the case id if the form has one; the
\* flag is only read, after that
Login(r) ==
  /\ HandlerAt(r, "login", "new")
  /\ \E case_id \in {None} \cup {Some(c) : c \in CaseIds} :
       current_case_id' = IF case_id # None THEN case_id ELSE current_case_id
  /\ \E hasCredentials \in BOOLEAN :
       Goto(r, IF scrape_in_progress \/ ~hasCredentials THEN "rejected" ELSE "done")
  /\ UNCHANGED <<runVars, scrape_in_progress, threads, active_sessions, start_time>>

\* logout_route: the flag is reset and the browsers are closed; no thread is stopped
Logout(r) ==
  /\ HandlerAt(r, "logout", "new")
  /\ scrape_in_progress' = FALSE
  /\ start_time' = None
  /\ active_sessions' = {}
  /\ Goto(r, "done")
  /\ UNCHANGED <<runVars, threads, current_case_id>>

\* start_scraping: the browser is created and registered
CreateDriver(r) ==
  /\ threads[r] = "started"
  /\ threads' = [threads EXCEPT ![r] = "registered"]
  /\ active_sessions' = active_sessions \cup {r}
  /\ UNCHANGED <<runVars, scrape_in_progress, handlers, configVars>>

\* start_scraping: the run ends, with its result or with an exception at any place
\* after the thread started, and its finally block resets the flag
Finally(r) ==
  /\ threads[r] \in {"started", "registered"}
  /\ threads' = [threads EXCEPT ![r] = "finished"]
  /\ active_sessions' = active_sessions \ {r}
  /\ scrape_in_progress' = FALSE
  /\ start_time' = None
  /\ UNCHANGED <<runVars, handlers, current_case_id>>

NextServer ==
  \/ \E r \in Requests : StartScrapeCheck(r)
  \/ \E r \in Requests : StartScrapeStart(r)
  \/ \E r \in Requests : Login(r)
  \/ \E r \in Requests : Logout(r)
  \/ \E r \in Requests : CreateDriver(r)
  \/ \E r \in Requests : Finally(r)

\* the server after start-up, and the requests it is going to receive
InitServer ==
  /\ pc = "idle"
  /\ conn = "none" /\ connects = 0 /\ queries = <<>>
  /\ client_id = None /\ lienholder_id = None /\ fee_type_id = None
  /\ standard_lienholder_id = None /\ repo_fee_data = None /\ lookup_error = "none"
  /\ sorted_updates = <<>> /\ i = 1 /\ j = 1 /\ seen = {}
  /\ all_fees_table = <<>> /\ keys_fees_table = <<>>
  /\ predefined_fees_table = <<>> /\ other_fees_table = <<>>
  /\ skipped = <<>>
  /\ current_case_info = None /\ db = CHOOSE store \in Stores : TRUE
  /\ scraped_updates = <<>> /\ page_html = EmptyStr
  /\ fee_updates = <<>> /\ input_updates = <<>>
  /\ NoSchema
  /\ NoScrape
  /\ current_case_id = None
  /\ start_time = None
  /\ scrape_in_progress = FALSE
  /\ handlers \in [Requests -> {Handler(route, "new") : route \in Routes}]
  /\ threads = [r \in Requests |-> "none"]
  /\ active_sessions = {}

SpecServer == InitServer /\ [][NextServer]_vars

\* ------------------------------------- lookup_repo_fee.py: the schema discovery
\* tables_info is the dict of get_tables_with_columns as the sequence of its items,
\* in the order of the query (ORDER BY t.name)
TableInfo(table, columns) == [table |-> table, columns |-> columns]

\* find_matching_column: the first column one of the names is part of, or that is
\* part of one of the names, ignoring case; None without one
MatchingColumns(columns, possible_names) ==
  {c \in DOMAIN columns :
     \E n \in DOMAIN possible_names :
       \/ Contains(Lower(columns[c]), Lower(possible_names[n]))
       \/ Contains(Lower(possible_names[n]), Lower(columns[c]))}

find_matching_column(columns, possible_names) ==
  LET hits == MatchingColumns(columns, possible_names)
  IN IF hits = {} THEN None ELSE Some(columns[First(hits)])

\* tables_info.get(table, [])
ColumnsOf(table) ==
  LET hits == {k \in DOMAIN tables_info : tables_info[k].table = table}
  IN IF hits = {} THEN <<>> ELSE tables_info[First(hits)].columns

\* the role the name of a table gives it: the elif chain of the detection loop
RoleOf(table) ==
  LET table_lower == Lower(table)
  IN IF Contains(table_lower, <<"f","e","e","d","e","t","a","i","l","s">>) \/ Contains(table_lower, <<"f","e","e","_","d","e","t","a","i","l","s">>)
     THEN "fee"
     ELSE IF Contains(table_lower, <<"c","l","i","e","n","t">>) THEN "client"
     ELSE IF Contains(table_lower, <<"l","i","e","n","h","o","l","d","e","r">>) \/ Contains(table_lower, <<"l","i","e","n","_","h","o","l","d","e","r">>)
          THEN "lienholder"
     ELSE IF Contains(table_lower, <<"f","e","e","t","y","p","e">>) \/ Contains(table_lower, <<"f","e","e","_","t","y","p","e">>)
          THEN "feetype"
     ELSE "none"

\* the fixed default table names of the fallback
DefaultFeeTable == <<"F","e","e","D","e","t","a","i","l","s">>
DefaultClientTable == <<"R","D","N","_","C","l","i","e","n","t">>
DefaultLienholderTable == <<"L","i","e","n","h","o","l","d","e","r">>
DefaultFeeTypeTable == <<"F","e","e","T","y","p","e">>

\* the names the columns are looked for under
ClientIdNames == <<<<"i","d">>, <<"c","l","i","e","n","t","_","i","d">>, <<"c","l","i","e","n","t","i","d">>>>
ClientNameNames == <<<<"c","l","i","e","n","t","_","n","a","m","e">>, <<"c","l","i","e","n","t","n","a","m","e">>, <<"n","a","m","e">>>>
LienholderIdNames == <<<<"i","d">>, <<"l","i","e","n","h","o","l","d","e","r","_","i","d">>, <<"l","i","e","n","h","o","l","d","e","r","i","d">>, <<"l","h","_","i","d">>>>
LienholderNameNames == <<<<"l","i","e","n","h","o","l","d","e","r","_","n","a","m","e">>, <<"l","i","e","n","h","o","l","d","e","r","n","a","m","e">>, <<"n","a","m","e">>>>
FeeTypeIdNames == <<<<"i","d">>, <<"f","e","e","t","y","p","e","_","i","d">>, <<"f","e","e","t","y","p","e","i","d">>, <<"f","t","_","i","d">>>>
FeeTypeNameNames == <<<<"f","e","e","_","t","y","p","e","_","n","a","m","e">>, <<"f","e","e","t","y","p","e","n","a","m","e">>, <<"n","a","m","e">>>>
FdIdNames == <<<<"i","d">>, <<"f","d","_","i","d">>, <<"f","e","e","d","e","t","a","i","l","s","i","d">>, <<"f","e","e","d","e","t","a","i","l","s","_","i","d">>>>
ClientRefNames == <<<<"c","l","i","e","n","t","_","i","d">>, <<"c","l","i","e","n","t","i","d">>>>
LienholderRefNames == <<<<"l","i","e","n","h","o","l","d","e","r","_","i","d">>, <<"l","i","e","n","h","o","l","d","e","r","i","d">>, <<"l","h","_","i","d">>>>
FeeTypeRefNames == <<<<"f","e","e","t","y","p","e","_","i","d">>, <<"f","e","e","t","y","p","e","i","d">>, <<"f","t","_","i","d">>>>
AmountNames == <<<<"a","m","o","u","n","t">>, <<"f","e","e","_","a","m","o","u","n","t">>, <<"f","e","e","a","m","o","u","n","t">>>>

\* every column the queries need was identified in the four tables chosen
ColumnsIdentified ==
  /\ find_matching_column(ColumnsOf(client_table[1]), ClientIdNames) # None
  /\ find_matching_column(ColumnsOf(client_table[1]), ClientNameNames) # None
  /\ find_matching_column(ColumnsOf(lienholder_table[1]), LienholderIdNames) # None
  /\ find_matching_column(ColumnsOf(lienholder_table[1]), LienholderNameNames) # None
  /\ find_matching_column(ColumnsOf(feetype_table[1]), FeeTypeIdNames) # None
  /\ find_matching_column(ColumnsOf(feetype_table[1]), FeeTypeNameNames) # None
  /\ find_matching_column(ColumnsOf(fee_table[1]), FdIdNames) # None
  /\ find_matching_column(ColumnsOf(fee_table[1]), ClientRefNames) # None
  /\ find_matching_column(ColumnsOf(fee_table[1]), LienholderRefNames) # None
  /\ find_matching_column(ColumnsOf(fee_table[1]), FeeTypeRefNames) # None
  /\ find_matching_column(ColumnsOf(fee_table[1]), AmountNames) # None

\* conn = get_db_connection(); if not conn: return None
SchemaConnect ==
  /\ pc = "s_connect"
  /\ connects' = connects + 1
  /\ \E ok \in BOOLEAN :
       IF ok THEN conn' = "open" /\ pc' = "s_tables"
                  /\ UNCHANGED <<repo_fee_data, lookup_error>>
       ELSE conn' = "none" /\ pc' = "lookup_done" /\ repo_fee_data' = None
            /\ lookup_error' = "connect"
  /\ UNCHANGED <<inputVars, fee_updates, tableVars, queries, client_id, lienholder_id,
                 fee_type_id, standard_lienholder_id>>

\* tables_info = get_tables_with_columns(cursor); if not tables_info: return None
GetTables ==
  /\ pc = "s_tables"
  /\ IF tables_info = <<>>
     THEN LookupReturn(None)
     ELSE pc' = "s_classify" /\ UNCHANGED <<repo_fee_data, conn>>
  /\ UNCHANGED <<inputVars, fee_updates, tableVars, connects, queries, client_id,
                 lienholder_id, fee_type_id, standard_lienholder_id, lookup_error>>

\* one pass of the detection loop: the table at table_k takes the role its name gives
ClassifyTable ==
  /\ pc = "s_classify"
  /\ table_k <= Len(tables_info)
  /\ LET table == tables_info[table_k].table
         role == RoleOf(table)
     IN /\ fee_table' = IF role = "fee" THEN Some(table) ELSE fee_table
        /\ client_table' = IF role = "client" THEN Some(table) ELSE client_table
        /\ lienholder_table' = IF role = "lienholder" THEN Some(table) ELSE lienholder_table
        /\ feetype_table' = IF role = "feetype" THEN Some(table) ELSE feetype_table
  /\ table_k' = table_k + 1
  /\ UNCHANGED <<current_case_info, db, input_updates, scraped_updates, page_html,
                 serverVars, scrapeVars, configVars, tables_info, fallback_logged, fee_updates, pc, lookupVars,
                 tableVars>>

\* after the loop: a role without a table takes its default name, with a warning
CheckTables ==
  /\ pc = "s_classify"
  /\ table_k > Len(tables_info)
  /\ IF None \in {fee_table, client_table, lienholder_table, feetype_table}
     THEN /\ fee_table' = IF fee_table = None THEN Some(DefaultFeeTable) ELSE fee_table
          /\ client_table' =
               IF client_table = None THEN Some(DefaultClientTable) ELSE client_table
          /\ lienholder_table' =
               IF lienholder_table = None THEN Some(DefaultLienholderTable)
               ELSE lienholder_table
          /\ feetype_table' =
               IF feetype_table = None THEN Some(DefaultFeeTypeTable) ELSE feetype_table
          /\ fallback_logged' = TRUE
     ELSE UNCHANGED <<fee_table, client_table, lienholder_table, feetype_table,
                      fallback_logged>>
  /\ pc' = "s_columns"
  /\ UNCHANGED <<current_case_info, db, input_updates, scraped_updates, page_html,
                 serverVars, scrapeVars, configVars, tables_info, table_k, fee_updates, lookupVars, tableVars>>

\* the columns of the four tables: without one of them the lookup returns None,
\* with all of them it goes on to Step 1
IdentifyColumns ==
  /\ pc = "s_columns"
  /\ IF ColumnsIdentified
     THEN pc' = "q_client" /\ UNCHANGED <<repo_fee_data, conn>>
     ELSE LookupReturn(None)
  /\ UNCHANGED <<inputVars, fee_updates, tableVars, connects, queries, client_id,
                 lienholder_id, fee_type_id, standard_lienholder_id, lookup_error>>

\* lookup_repo_fee of lookup_repo_fee.py: the discovery, then the steps of the lookup
NextSchema ==
  \/ SchemaConnect \/ GetTables \/ ClassifyTable \/ CheckTables \/ IdentifyColumns
  \/ QueryClient \/ QueryLienholder \/ QueryFeeType \/ PrimaryLookup
  \/ QueryStandard \/ FallbackLookup \/ QueryRaises

\* the tables a database may hold for the four roles: under a name the detection
\* knows, or under one it does not know
ClientColumns == <<<<"i","d">>, <<"c","l","i","e","n","t","_","n","a","m","e">>>>
LienholderColumns == <<<<"i","d">>, <<"l","i","e","n","h","o","l","d","e","r","_","n","a","m","e">>>>
FeeTypeColumns == <<<<"i","d">>, <<"f","e","e","_","t","y","p","e","_","n","a","m","e">>>>
FeeDetailColumns == <<<<"f","d","_","i","d">>, <<"c","l","i","e","n","t","_","i","d">>, <<"l","h","_","i","d">>, <<"f","t","_","i","d">>, <<"a","m","o","u","n","t">>>>

SchemaTables ==
  << TableInfo(<<"B","a","n","k","s">>, LienholderColumns),
     TableInfo(<<"C","u","s","t","o","m","e","r","s">>, ClientColumns),
     TableInfo(<<"F","e","e","D","e","t","a","i","l","s","2">>, FeeDetailColumns),
     TableInfo(<<"F","e","e","T","y","p","e">>, FeeTypeColumns),
     TableInfo(<<"K","i","n","d","s">>, FeeTypeColumns),
     TableInfo(<<"L","i","e","n","h","o","l","d","e","r">>, LienholderColumns),
     TableInfo(<<"R","a","t","e","s">>, FeeDetailColumns),
     TableInfo(<<"R","D","N","_","C","l","i","e","n","t">>, ClientColumns) >>

\* one table for each role, or no table at all
Schemas ==
  {<<>>} \cup
  {SelectSeq(SchemaTables, LAMBDA t : t.table \in {fee, client, lienholder, feetype}) :
     fee \in {<<"F","e","e","D","e","t","a","i","l","s","2">>, <<"R","a","t","e","s">>},
     client \in {<<"R","D","N","_","C","l","i","e","n","t">>, <<"C","u","s","t","o","m","e","r","s">>},
     lienholder \in {<<"L","i","e","n","h","o","l","d","e","r">>, <<"B","a","n","k","s">>},
     feetype \in {<<"F","e","e","T","y","p","e">>, <<"K","i","n","d","s">>}}

SchemaStores ==
  {Store(TRUE, TRUE, Some(1), Some(2), Some(Some(300000)), Some(Some(250000))),
   Store(TRUE, TRUE, None, Some(2), None, Some(Some(250000))),
   Store(FALSE, TRUE, Some(1), Some(2), None, None)}

\* lookup_repo_fee of lookup_repo_fee.py called for a case, on every schema
InitSchema ==
  /\ pc = "s_connect"
  /\ conn = "none" /\ connects = 0 /\ queries = <<>>
  /\ client_id = None /\ lienholder_id = None /\ fee_type_id = None
  /\ standard_lienholder_id = None /\ repo_fee_data = None /\ lookup_error = "none"
  /\ sorted_updates = <<>> /\ i = 1 /\ j = 1 /\ seen = {}
  /\ all_fees_table = <<>> /\ keys_fees_table = <<>>
  /\ predefined_fees_table = <<>> /\ other_fees_table = <<>>
  /\ skipped = <<>>
  /\ current_case_info = CaseInfo(Acme, AcmeBank, InvoluntaryRepo)
  /\ db \in SchemaStores
  /\ fee_updates = <<>> /\ input_updates = <<>>
  /\ scraped_updates = <<>> /\ page_html = EmptyStr
  /\ InRun
  /\ NoScrape
  /\ tables_info \in Schemas
  /\ table_k = 1
  /\ fee_table = None /\ client_table = None
  /\ lienholder_table = None /\ feetype_table = None
  /\ fallback_logged = FALSE

SpecSchema == InitSchema /\ [][NextSchema]_vars


\* ===================================================================== claims
Range(seq) == {seq[k] : k \in DOMAIN seq}

\* the candidates of this run: <<a, b>> is amount_info b of sorted_updates[a]
Cands ==
  UNION {{<<a, b>> : b \in 1..Len(sorted_updates[a].amounts)} : a \in 1..Len(sorted_updates)}
Before(c, d) == c[1] < d[1] \/ (c[1] = d[1] /\ c[2] < d[2])
CandUpdate(c) == sorted_updates[c[1]]
CandInfo(c) == sorted_updates[c[1]].amounts[c[2]]
CandSource(c) == SourceOf(CandUpdate(c))
CandCategory(c) == ResolveCategory(CandInfo(c).feeType, CandUpdate(c).feeLabel)
CandKey(c) == Classify(CandUpdate(c), CandInfo(c), c).key
\* the candidates the loops have passed that carry a positive numeric amount
Handled == {c \in Cands : Before(c, <<i, j>>) /\ ~AmountRejected(CandInfo(c))}
Dropped(c) == c \in Range(skipped)
Created == {c \in Handled : ~Dropped(c)}
Count(table, c) == Cardinality({k \in DOMAIN table : table[k].cand = c})
InOutput(c) ==
  Count(all_fees_table, c) + Count(keys_fees_table, c)
    + Count(predefined_fees_table, c) + Count(other_fees_table, c) > 0
InThree(c) ==
  Count(keys_fees_table, c) + Count(predefined_fees_table, c) + Count(other_fees_table, c)

\* the DedupKey of an output record, read off the record itself
EntryKey(e) == <<e.amount, normalize(e.category), normalize(e.referenceSentence)>>
NoRepeatedKey(table) ==
  \A a, b \in DOMAIN table : a # b => EntryKey(table[a]) # EntryKey(table[b])
ThreeTables == keys_fees_table \o predefined_fees_table \o other_fees_table

\* C1: no two records of the output tables of one run of generate_fees_table share
\* a DedupKey (amount to 2 decimals, normalized category, normalized context)
C1_UniqueDedupKey ==
  /\ NoRepeatedKey(all_fees_table)
  /\ NoRepeatedKey(ThreeTables)

\* C1 witness: a finished run that dropped a duplicate and kept several records
C1_Witness == pc = "done" /\ Len(skipped) > 0 /\ Len(all_fees_table) >= 2

\* a Database candidate d and an Updates candidate u with the same DedupKey
Collide(d, u) ==
  /\ d \in Handled /\ u \in Handled
  /\ CandSource(d) = "Database" /\ CandSource(u) = "Updates"
  /\ CandKey(d) = CandKey(u)

InPriorityOrder ==
  pc \in {"loop", "done"} =>
    /\ \A a, b \in DOMAIN sorted_updates :
         a < b => Rank(SourceOf(sorted_updates[a])) <= Rank(SourceOf(sorted_updates[b]))
    /\ \A r \in 0..3 : OfRank(sorted_updates, r) = OfRank(fee_updates, r)
    /\ Len(sorted_updates) = Len(fee_updates)

\* a candidate is dropped exactly when an earlier candidate holds its key
FirstClaimWins ==
  \A c \in Handled :
    Dropped(c) <=> \E c0 \in Handled : Before(c0, c) /\ CandKey(c0) = CandKey(c)

IsPrefix(s, t) == Len(s) <= Len(t) /\ SubSeq(t, 1, Len(s)) = s

\* no step replaces or removes a kept record, a claimed key or a logged drop
NeverReplaced ==
  /\ IsPrefix(all_fees_table, all_fees_table')
  /\ IsPrefix(keys_fees_table, keys_fees_table')
  /\ IsPrefix(predefined_fees_table, predefined_fees_table')
  /\ IsPrefix(other_fees_table, other_fees_table')
  /\ IsPrefix(skipped, skipped')
  /\ seen \subseteq seen'

StandardFallbackTag == Tail(StandardFallbackSuffix)   \* "(Standard Fallback)"

\* lookup_repo_fee was called and has returned
LookupFinished == connects = 1 /\ pc \in {"lookup_done", "loop", "done", "raised"}
\* ... and it neither failed to connect nor caught an exception
LookupRan == LookupFinished /\ lookup_error = "none"

ClientResolves == \E c \in db.Client : c.name = case_client_name
FeeTypeResolves == \E ft \in db.FeeType : ft.name = case_repo_type
LienholderResolves == \E lh \in db.Lienholder : lh.name = case_lienholder_name

\* the FeeDetails2 rows of the case's client and fee type under the lienholder named
RowsFor(lienholder_name) ==
  {fd \in db.FeeDetails2 :
     \E c \in db.Client, lh \in db.Lienholder, ft \in db.FeeType :
       /\ c.name = case_client_name /\ lh.name = lienholder_name
       /\ ft.name = case_repo_type
       /\ fd.client_id = c.id /\ fd.lh_id = lh.id /\ fd.ft_id = ft.id}

FallbackCase ==
  /\ LookupRan
  /\ ClientResolves /\ FeeTypeResolves
  /\ RowsFor(case_lienholder_name) = {}
  /\ RowsFor(Standard) # {}

\* C5: when client and fee type resolve, no FeeDetail row exists for the requested
\* lienholder and the Standard lienholder has one, lookup_repo_fee returns the
\* Standard row's amount with is_fallback = True and a lienholder_name ending in
\* "(Standard Fallback)"
C5_FallbackLaw ==
  FallbackCase =>
    /\ repo_fee_data # None
    /\ repo_fee_data[1].is_fallback = TRUE
    /\ \E fd \in RowsFor(Standard) :
         repo_fee_data[1].amount = fd.amount /\ repo_fee_data[1].fd_id = fd.fd_id
    /\ EndsWith(repo_fee_data[1].lienholder_name, StandardFallbackTag)

\* C5 witness: the fallback case with a lienholder name that does not resolve
C5_Witness == FallbackCase /\ ~LienholderResolves /\ repo_fee_data # None

\* C6 as claimed: when the lienholder resolves (to any id) and a row exists for the
\* exact triple, lookup_repo_fee returns that row with is_fallback = False and never
\* consults the Standard lienholder
C6_PrimaryLookup ==
  (/\ LookupRan
   /\ ClientResolves /\ FeeTypeResolves /\ LienholderResolves
   /\ RowsFor(case_lienholder_name) # {})
  => /\ repo_fee_data # None
     /\ repo_fee_data[1].is_fallback = FALSE
     /\ \E fd \in RowsFor(case_lienholder_name) : repo_fee_data[1].fd_id = fd.fd_id
     /\ "standard" \notin Range(queries)
     /\ "fallback" \notin Range(queries)

\* C7: an unresolved client or fee type gives None without the primary or the
\* fallback FeeDetail query; an unresolved lienholder alone does not end the lookup,
\* which goes on to the Standard fallback stage
C7_KeyResolution ==
  /\ (HasCaseInfo /\ (~ClientResolves \/ ~FeeTypeResolves))
       => /\ repo_fee_data = None
          /\ "primary" \notin Range(queries)
          /\ "fallback" \notin Range(queries)
  /\ (LookupRan /\ ClientResolves /\ FeeTypeResolves /\ ~LienholderResolves)
       => /\ "standard" \in Range(queries)
          /\ "primary" \notin Range(queries)
          /\ (RowsFor(Standard) # {} => repo_fee_data # None)

\* C7 witness: only the lienholder is unresolved and the fallback stage found a row
C7_Witness ==
  /\ LookupRan /\ ClientResolves /\ FeeTypeResolves /\ ~LienholderResolves
  /\ repo_fee_data # None
  /\ queries = <<"client", "lienholder", "feetype", "standard", "fallback">>

\* C8 as claimed: whatever the lookup does or returns (a row with a NULL amount
\* included), generate_fees_table does not raise
C8_NeverRaises == pc # "raised"

ValidInput(name) == name # EmptyStr /\ name # NotFound

\* C9 as claimed: a connection is opened or a query executed only if the client,
\* lienholder and fee-type names are all non-empty and not "Not found"
C9_InputValidation ==
  (connects > 0 \/ queries # <<>>) =>
    /\ HasCaseInfo
    /\ ValidInput(case_client_name)
    /\ ValidInput(case_lienholder_name)
    /\ ValidInput(case_repo_type)

\* C10: a record created from a candidate whose resolved category contains "key"
\* (any case) has category 'Keys Fee', keeps the resolved text as originalCategory,
\* and is in the Keys table and in no other of the three tables; it carries no
\* whitelist match
C10_KeysNormalization ==
  \A c \in Created :
    Contains(Lower(CandCategory(c)), KeyWord) =>
      /\ Count(keys_fees_table, c) = 1
      /\ Count(predefined_fees_table, c) = 0
      /\ Count(other_fees_table, c) = 0
      /\ \A e \in Range(keys_fees_table) \cup Range(all_fees_table) :
           e.cand = c => /\ e.category = KeysFee
                         /\ e.originalCategory = CandCategory(c)
                         /\ e.matchedAs = "Keys Fee"

\* C10 witness: a finished run that put a category containing both "key" and a
\* whitelist name ("Bonus Key") into the Keys table
C10_Witness ==
  /\ pc = "done"
  /\ \E e \in Range(keys_fees_table) : e.originalCategory = FtBonusKey


\* ------------------------------------------------ claims on the classification
\* the output records made from candidate c
EntriesOf(c) ==
  {e \in Range(all_fees_table) \cup Range(ThreeTables) : e.cand = c}

\* the candidates that came from a block of the Updates tab: extract_fee_information
\* built their update, and the rename of 'Case Page' left it as it was
FromUpdatesTab(c) ==
  \E k \in DOMAIN input_updates :
    /\ input_updates[k].source = Some("Updates")
    /\ CandUpdate(c) = input_updates[k]

KeyHint(context) == Contains(Lower(context), <<"k","e","y">>) \/ Contains(Lower(context), <<"p","u","s","h">>)

\* C11: a fee candidate with Updates provenance whose match context contains 'key' or
\* 'push' next to a dollar amount is given the fee type 'Keys Fee' by
\* extract_fee_information, and generate_fees_table puts its entry, with the category
\* 'Keys Fee', in the Keys table
C11_KeyTypeHint ==
  \A c \in Created :
    (FromUpdatesTab(c) /\ KeyHint(CandInfo(c).context)) =>
      /\ CandInfo(c).feeType = KeysFee
      /\ Count(keys_fees_table, c) = 1
      /\ \A e \in EntriesOf(c) : e.category = KeysFee

\* C12: the resolved category of a record is the candidate's feeType if non-empty,
\* else the update's feeLabel if non-empty, else 'Unknown Fee'; a record made from a
\* key fee scanned off the case page (source 'Case Page') has category 'Keys Fee'
\* and is in the Keys table
C12_CategoryPrecedence ==
  /\ \A c \in Created : \A e \in EntriesOf(c) :
       LET ft == CandInfo(c).feeType
           fl == CandUpdate(c).feeLabel
       IN /\ ft # EmptyStr => e.originalCategory = ft
          /\ (ft = EmptyStr /\ fl # EmptyStr) => e.originalCategory = fl
          /\ (ft = EmptyStr /\ fl = EmptyStr) => e.originalCategory = UnknownFee
  /\ \A k \in DOMAIN input_updates :
       input_updates[k].source = Some("Case Page") =>
         \A c \in Created :
           CandUpdate(c) = RenameCasePage(input_updates[k]) =>
             /\ Count(keys_fees_table, c) = 1
             /\ \A e \in EntriesOf(c) : e.category = KeysFee

\* C12 witness: a finished run with a page-scanned key fee in the Keys table and a
\* record whose type hint won over a label that was present too
C12_Witness ==
  /\ pc = "done"
  /\ \E k \in DOMAIN input_updates : input_updates[k].source = Some("Case Page")
  /\ Len(keys_fees_table) > 0
  /\ \E c \in Created :
       /\ CandInfo(c).feeType # EmptyStr /\ CandUpdate(c).feeLabel # EmptyStr
       /\ CandInfo(c).feeType # CandUpdate(c).feeLabel
       /\ EntriesOf(c) # {}

\* one of the two strings contains the other
Containment(category_lower, k) ==
  \/ Contains(category_lower, pre_approved_lower[k])
  \/ Contains(pre_approved_lower[k], category_lower)

\* score = min(len)/max(len) of the category and whitelist entry k is above 0.5
ScoreAboveHalf(category_lower, k) ==
  2 * Min2(Len(category_lower), Len(pre_approved_lower[k]))
    > Max2(Len(category_lower), Len(pre_approved_lower[k]))

\* whitelist entry k scores at least as well as entry m, and better if it comes later
Beats(category_lower, k, m) ==
  LET n == Len(category_lower)
      lk == Len(pre_approved_lower[k])
      lm == Len(pre_approved_lower[m])
      left == Min2(n, lk) * Max2(n, lm)
      right == Min2(n, lm) * Max2(n, lk)
  IN left > right \/ (left = right /\ k <= m)

\* C13 as claimed: a non-key category without an exact whitelist match is predefined
\* only through a whitelist entry that contains it or is contained in it with
\* min(len)/max(len) > 0.5, the best-scoring such entry, the earlier one on a tie;
\* otherwise its record is in the Other table
C13_WhitelistThreshold ==
  \A c \in Created :
    LET category_lower == Lower(CandCategory(c))
        accepted == {k \in WhitelistIdx : /\ Containment(category_lower, k)
                                          /\ ScoreAboveHalf(category_lower, k)}
    IN (/\ CandSource(c) # "Database"
        /\ ~Contains(category_lower, KeyWord)
        /\ \A k \in WhitelistIdx : pre_approved_lower[k] # category_lower)
       => IF accepted = {}
          THEN Count(other_fees_table, c) = 1 /\ Count(predefined_fees_table, c) = 0
          ELSE /\ Count(predefined_fees_table, c) = 1
               /\ \A e \in EntriesOf(c) :
                    \E k \in accepted :
                      /\ \A m \in accepted : Beats(category_lower, k, m)
                      /\ e.category = pre_approved_fees[k]

\* the approval signals of candidate c, the whitelist match read off its record e
ApprovalSignal(c, e) ==
  \/ CandSource(c) = "Database"
  \/ e.matchedAs = "Pre-approved Non-Repo"
  \/ CandInfo(c).isExplicitlyApproved
  \/ CandUpdate(c).isApproved

\* an approved record of a table stays in its place and stays approved
StaysApproved(table, tableNext) ==
  \A k \in DOMAIN table :
    table[k].approved = "Yes" => k \in DOMAIN tableNext /\ tableNext[k].approved = "Yes"

ApprovalKept ==
  /\ StaysApproved(all_fees_table, all_fees_table')
  /\ StaysApproved(keys_fees_table, keys_fees_table')
  /\ StaysApproved(predefined_fees_table, predefined_fees_table')
  /\ StaysApproved(other_fees_table, other_fees_table')

RECURSIVE KeepIdx(_, _, _)
KeepIdx(seq, S, k) ==
  IF k > Len(seq) THEN <<>>
  ELSE (IF k \in S THEN <<seq[k]>> ELSE <<>>) \o KeepIdx(seq, S, k + 1)

\* the candidates that survived this run, as a list of updates
Survivors ==
  [a \in 1..Len(sorted_updates) |->
     [sorted_updates[a] EXCEPT
        !.amounts = KeepIdx(@, {b \in 1..Len(@) : <<a, b>> \in Created}, 1)]]

NoCand(table) == [k \in DOMAIN table |-> [table[k] EXCEPT !.cand = <<0, 0>>]]

SameTables(st1, st2) ==
  /\ st1.all = st2.all /\ st1.keys = st2.keys
  /\ st1.predefined = st2.predefined /\ st1.other = st2.other

\* C15: every amount that extract_fee_information and scan_for_key_fees hand on in a
\* fee candidate is numeric and greater than zero
C15_PositiveAmounts ==
  \A k \in DOMAIN input_updates :
    input_updates[k].source \in {Some("Updates"), Some("Case Page")} =>
      \A n \in DOMAIN input_updates[k].amounts :
        ~AmountRejected(input_updates[k].amounts[n])


ActiveRuns == {r \in DOMAIN threads : threads[r] \in {"started", "registered"}}

\* C17: under every interleaving of /start-scrape, /login and /logout requests and
\* of scrape completions, at most one start_scraping thread is active at any time
C17_SingleFlight == Cardinality(ActiveRuns) <= 1


C18_Original ==
  (repo_fee_data # None /\ repo_fee_data[1].is_fallback) =>
    /\ repo_fee_data[1].lienholder_name = case_lienholder_name \o StandardFallbackSuffix
    /\ repo_fee_data[1].message # None
    /\ Contains(repo_fee_data[1].message[1], case_lienholder_name)

\* C18 amended: on a fallback result the lienholder name is the name of the row
\* found, 'Standard', followed by ' (Standard Fallback)'; the requested lienholder is
\* named in the message only
C18_FallbackName ==
  (repo_fee_data # None /\ repo_fee_data[1].is_fallback) =>
    /\ repo_fee_data[1].lienholder_name = Standard \o StandardFallbackSuffix
    /\ repo_fee_data[1].message # None
    /\ Contains(repo_fee_data[1].message[1], case_lienholder_name)
    /\ ~Contains(repo_fee_data[1].lienholder_name, case_lienholder_name)

\* lookup_repo_fee has returned to generate_fees_table, or was not called
LookupReturned == pc \in {"lookup_done", "loop", "done", "raised"}

\* the places of fee_updates that hold a database fee
DatabaseFees == {k \in DOMAIN fee_updates : fee_updates[k].source = Some("Database")}

C18_Witness ==
  /\ repo_fee_data # None /\ repo_fee_data[1].is_fallback
  /\ LienholderResolves
  /\ RowsFor(case_lienholder_name) = {}

\* C20: allFeesTable is the union of the three tables: each of its entries is in
\* exactly one place of the three tables, each entry of the three tables is in it,
\* and the lengths agree
C20_AllFeesUnion ==
  /\ \A k \in DOMAIN all_fees_table :
       Cardinality({m \in DOMAIN ThreeTables : ThreeTables[m] = all_fees_table[k]}) = 1
  /\ \A m \in DOMAIN ThreeTables : ThreeTables[m] \in Range(all_fees_table)
  /\ Len(all_fees_table)
       = Len(keys_fees_table) + Len(predefined_fees_table) + Len(other_fees_table)

\* C20 witness: a finished run with records in the Predefined and the Other table
C20_Witness ==
  /\ pc = "done"
  /\ Len(predefined_fees_table) > 0
  /\ Len(other_fees_table) > 0

\* C24: lookup_repo_fee returns a record with is_fallback = True only if no FeeDetail
\* row exists for the requested (client, lienholder, fee type) triple: an exact row of
\* a lienholder present in the Lienholder table is never replaced by the Standard rate
C24_FallbackOnlyWithoutExact ==
  (repo_fee_data # None /\ repo_fee_data[1].is_fallback) =>
    RowsFor(case_lienholder_name) = {}

\* ------------------------------------------------- claims on the whole pipeline
\* the records made from the amounts of the update at place a of sorted_updates
RecordsOf(a) == {c \in Created : c[1] = a}

\* C22: a monetary mention of a block that several pattern families match (the blocks
\* here hold one mention each) yields several candidates, which the deduplication
\* collapses: the finished tables hold at most one record for the block
C22_FamiliesCollapsed ==
  pc = "done" =>
    \A a \in DOMAIN sorted_updates :
      SourceOf(sorted_updates[a]) = "Updates" => Cardinality(RecordsOf(a)) <= 1

\* the fee updates extract_fee_information returned, as start_scraping combined them
UpdatesFees(combined) == SelectSeq(combined, LAMBDA u : u.source = Some("Updates"))

\* "if not content.strip() or len(content) > 5000: continue"
SkippedBlock(update) ==
  Strip(ContentOf(update)) = EmptyStr \/ Len(ContentOf(update)) > MaxContentLen

FirstBlocks(updates) == SubSeq(updates, 1, Min2(Len(updates), MaxUpdatesToProcess))

\* C23: extract_fee_information looks at the first 50 updates at most, skips an update
\* whose content is blank or longer than 5000 characters, and returns at most 50 fee
\* updates: what it returns is what the first 50 blocks that are not skipped give
C23_ExtractionBounded ==
  [][(pc = "extract" /\ pc' = "start") =>
       LET returned == UpdatesFees(fee_updates')
           examined == SelectSeq(FirstBlocks(scraped_updates),
                                 LAMBDA update : ~SkippedBlock(update))
       IN /\ Len(returned) <= MaxUpdatesToProcess
          /\ Len(returned) <= Len(examined)
          /\ returned = extract_fee_information(examined)]_vars

\* C23 witness: a tab of more than 50 blocks with an oversized block among the first
\* 50 gave 49 fee updates
C23_Witness ==
  /\ pc = "start"
  /\ Len(scraped_updates) > MaxUpdatesToProcess
  /\ \E k \in 1..MaxUpdatesToProcess : Len(scraped_updates[k].content) > MaxContentLen
  /\ Len(UpdatesFees(fee_updates)) = MaxUpdatesToProcess - 1

\* the database fees generate_html_report finds for its card: it reads the fee updates
\* save_data was handed
ReportDatabaseFees ==
  SelectSeq(saved[1].fee_updates, LAMBDA update : SourceOf(update) = "Database")

\* C25: when lookup_repo_fee returned a record, the 'databaseFees' list of the
\* process-complete event holds a fee with that amount, and the report has a database
\* fee to show on its card
C25_DatabaseFeeDelivered ==
  (pc = "emitted" /\ repo_fee_data # None) =>
    /\ \E k \in DOMAIN process_complete[1].databaseFees :
         process_complete[1].databaseFees[k].amount = Fmt2(repo_fee_data[1].amount[1])
    /\ ReportDatabaseFees # <<>>

\* the candidates a table lists
CandsOf(table) == {table[k].cand : k \in DOMAIN table}

\* C26: every fee record is in the same table (Predefined, Keys or Other) in what
\* save_data writes and in the process-complete event
C26_SameTables ==
  pc = "emitted" =>
    /\ CandsOf(process_complete[1].predefinedFeesTable) = CandsOf(saved[1].predefinedFeesTable)
    /\ CandsOf(process_complete[1].keysFeesTable) = CandsOf(saved[1].keysFeesTable)
    /\ CandsOf(process_complete[1].otherFeesTable) = CandsOf(saved[1].otherFeesTable)

C28_NoLeakBetweenCases ==
  pc = "start" =>
    fee_updates = my_summary_fees \o extract_fee_information(scraped_updates)
                    \o KeyFeeUpdates(scan_for_key_fees(page_html))

\* ------------------------------------------------- more claims on the HTTP routes
\* C29: while a scrape is in progress no request changes config['current_case_id'],
\* a request rejected with 'Scrape already in progress' included
C29_CaseIdKept ==
  [][scrape_in_progress => current_case_id' = current_case_id]_vars

\* the clean-up of run r: its finally block
CleansUp(r) == threads[r] \in {"started", "registered"} /\ threads'[r] = "finished"

\* C30: the clean-up of a run clears nothing of another run that is still going on:
\* the flag and the start time stay as they are and only its own session is removed
C30_CleanupOwnStateOnly ==
  [][\A r \in Requests :
       (CleansUp(r) /\ ActiveRuns \ {r} # {}) =>
         /\ scrape_in_progress' = scrape_in_progress
         /\ start_time' = start_time
         /\ active_sessions' = active_sessions \ {r}]_vars

\* --------------------------------------------- claims on the schema discovery
\* C21: when the discovery finds no table for one of the four roles, lookup_repo_fee
\* of lookup_repo_fee.py logs the fallback to the default table names and continues
\* the lookup with them: it goes on to Step 1 and queries the client
C21_DegradedPath ==
  (fallback_logged /\ pc = "lookup_done") => "client" \in Range(queries)

====
